---- MODULE Spec2Model ----
(***************************************************************************)
(* Telemetry ingestion and aggregation core of fs-telemetry:               *)
(*   - parse_csv_line      (src/src/csv_parser.py, parsing/csv_parser.py)  *)
(*   - TelemetryManager    (src/src/telemetry_manager.py)                  *)
(*   - CSVSource           (acquisition/csv_source.py)                     *)
(*   - CSVLogger           (src/src/csv_logger.py, log_handlers/...)       *)
(*   - the replay loops    (src/src/main.py, gui/replay_mode_widget.py)    *)
(*   - SerialSource        (src/src/serial_source.py)                      *)
(*   - the live loops      (src/src/main.py, */live_mode_widget.py)        *)
(*   - log file naming     (CSVLogger of src/src and of log_handlers)      *)
(*   - the mode widgets    (worker threads and their managers)             *)
(*   - get_stats() read while the worker thread appends to history         *)
(*   - sessions in which logger creation or the loop body raises           *)
(*                                                                         *)
(* A line of text is a sequence of one-character strings.  A Python float  *)
(* is a fixed-point number: the integer v stands for v / 10^FracDigits.    *)
(* The literals the model feeds to int() and float() are plain decimal     *)
(* literals with at most FracDigits digits after the point; exponent,      *)
(* inf and nan literals are outside the model's alphabet.                  *)
(***************************************************************************)
EXTENDS Integers, Sequences, FiniteSets, TLC

VARIABLES
    current,        \* TelemetryManager.current
    history,        \* TelemetryManager.history
    update_count,   \* TelemetryManager.update_count
    stats,          \* value returned by the last get_stats() call
    op,             \* the operation that produced the present state
    fed,            \* the non-None records passed to update() since the last clear
    prev,           \* the manager's fields as they were before the last operation
    file,           \* the replayed path: whether a file exists there, and its raw lines
    file_pos,       \* read position of the open file object: lines consumed so far
    file_state,     \* CSVSource.file: "none", "open" or "closed"
    line_count,     \* CSVSource.line_count
    loop,           \* which replay loop runs: "main_replay" or "ReplayThread"
    pc,             \* position of the running loop / driver
    line,           \* local variable line
    data,           \* local variable data
    running,        \* ReplayThread.running
    stopped,        \* ReplayThread.stop() has been called
    rows,           \* how the driver assembled the replayed file: header or not, pool rows
    signals,        \* notifications emitted so far, in order
    accepted,       \* records handed to the display collaborator, in order
    toks,           \* the field tokens the driver assembled the input line from
    variant,        \* which CSVLogger writes: "src" or "log_handlers"
    log_state,      \* the logger's output file: "none", "open" or "closed"
    log_file,       \* rows written to the logger's output file, in order
    reparsed,       \* result of parsing the row the logger wrote
    log_buf,        \* rows written to the logger's file object and not yet flushed
    io,             \* outcome of the file write of the latest log() call: "ok" or "error"
    raised,         \* the operation whose exception reached its caller last, or "none"
    source,         \* the kind of source in use: "csv", "serial" or "none"
    returned,       \* the values read() has returned so far, in order
    logged,         \* the calls of log() so far: the record passed and the write's outcome
    clock,          \* datetime.now(), in microseconds since the process started
    file_counter,   \* CSVLogger._file_counter of log_handlers/csv_logger.py
    filenames,      \* the file names generated for loggers built without one, in order
    calls,          \* the calls of parse_csv_line so far: line, result, state at the call
    managers,       \* the TelemetryManager objects of the GUI process; the first is the widget's
    threads,        \* the worker threads the widgets have built, in order of construction
    replay_thread,  \* ReplayModeWidget.replay_thread: index into threads, 0 for None
    acquisition_thread,     \* LiveModeWidget.acquisition_thread: index into threads, 0 for None
    gs_pc,          \* position of the presentation thread inside get_stats()
    gs_locals       \* the lists get_stats() has built so far

mgr_vars == <<current, history, update_count>>
src_vars == <<file, file_pos, file_state, line_count>>
loop_vars == <<loop, pc, line, data, running, stopped, signals, accepted>>
log_vars == <<variant, log_state, log_file, reparsed, log_buf, io>>
proc_vars == <<clock, file_counter, filenames, calls>>
gui_vars == <<managers, threads, replay_thread, acquisition_thread, gs_pc, gs_locals>>
vars == <<current, history, update_count, stats, op, fed, prev,
          file, file_pos, file_state, line_count,
          loop, pc, line, data, running, stopped, rows, signals, accepted,
          toks, variant, log_state, log_file, reparsed,
          log_buf, io, raised, source, returned, logged,
          clock, file_counter, filenames, calls,
          managers, threads, replay_thread, acquisition_thread, gs_pc, gs_locals>>

(***************************************************************************)
(* Bounds of the model.                                                    *)
(***************************************************************************)
FracDigits == 2     \* digits kept after the decimal point
MaxHistory == 3     \* longest manager history explored by SpecManager
MaxLines == 3       \* most data lines in a replayed file
MaxFields == 19     \* most fields in an input line given to the parser

\* the state of the process when a session starts: nothing that outlives a
\* session has happened yet
ProcInit ==
    /\ clock = 0 /\ file_counter = 0 /\ filenames = <<>>
    /\ calls = <<>>
    /\ managers = <<>> /\ threads = <<>> /\ replay_thread = 0 /\ acquisition_thread = 0
    /\ gs_pc = "idle" /\ gs_locals = <<>>

(***************************************************************************)
(* Python values.                                                          *)
(***************************************************************************)
None == [none |-> TRUE]

RECURSIVE Pow10(_)
Pow10(n) == IF n = 0 THEN 1 ELSE 10 * Pow10(n - 1)

One == Pow10(FracDigits)            \* the float 1.0
Float(i, f) == i * One + f * Pow10(FracDigits - 2)   \* i.f with f in hundredths

Abs(x) == IF x < 0 THEN -x ELSE x

DigitChars == <<"0", "1", "2", "3", "4", "5", "6", "7", "8", "9">>
IsDigit(c) == \E i \in 1..10 : DigitChars[i] = c
DigitVal(c) == (CHOOSE i \in 1..10 : DigitChars[i] = c) - 1
IsSpace(c) == c \in {" ", "\t", "\r", "\n"}

(***************************************************************************)
(* str.strip, str.startswith, str.split                                    *)
(***************************************************************************)
RECURSIVE lstrip(_)
lstrip(s) == IF s # <<>> /\ IsSpace(Head(s)) THEN lstrip(Tail(s)) ELSE s

RECURSIVE rstrip(_)
rstrip(s) ==
    IF s # <<>> /\ IsSpace(s[Len(s)]) THEN rstrip(SubSeq(s, 1, Len(s) - 1)) ELSE s

strip(s) == rstrip(lstrip(s))

startswith(s, p) == Len(s) >= Len(p) /\ SubSeq(s, 1, Len(p)) = p

\* str.split(sep): the pieces between the occurrences of sep, empty pieces
\* included; a string without sep is one piece.
split(s, sep) ==
    LET at == { i \in 1..Len(s) : s[i] = sep }
        nth(k) == CHOOSE p \in at : Cardinality({ q \in at : q < p }) = k - 1
        first(k) == IF k = 1 THEN 1 ELSE nth(k - 1) + 1
        last(k) == IF k = Cardinality(at) + 1 THEN Len(s) ELSE nth(k) - 1
    IN [k \in 1..(Cardinality(at) + 1) |-> SubSeq(s, first(k), last(k))]

RECURSIVE join(_, _)
join(parts, sep) ==
    IF parts = <<>> THEN <<>>
    ELSE IF Len(parts) = 1 THEN parts[1]
    ELSE parts[1] \o <<sep>> \o join(Tail(parts), sep)

(***************************************************************************)
(* int(str) and float(str) on decimal literals.  Both strip surrounding    *)
(* whitespace and take an optional sign.  int() wants one or more digits;  *)
(* float() wants digits with at most one point and at least one digit.     *)
(***************************************************************************)
AllDigits(s) == \A i \in 1..Len(s) : IsDigit(s[i])

RECURSIVE DigitsVal(_)
DigitsVal(s) ==
    IF s = <<>> THEN 0 ELSE 10 * DigitsVal(SubSeq(s, 1, Len(s) - 1)) + DigitVal(s[Len(s)])

HasSign(s) == s # <<>> /\ Head(s) \in {"-", "+"}
Unsigned(s) == IF HasSign(s) THEN Tail(s) ELSE s
SignOf(s) == IF s # <<>> /\ Head(s) = "-" THEN -1 ELSE 1

int_ok(tok) ==
    LET u == Unsigned(strip(tok)) IN u # <<>> /\ AllDigits(u)

int_val(tok) ==
    LET t == strip(tok) IN SignOf(t) * DigitsVal(Unsigned(t))

PointAt(u) == IF \E i \in 1..Len(u) : u[i] = "."
              THEN CHOOSE i \in 1..Len(u) : u[i] = "." /\ \A j \in 1..(i - 1) : u[j] # "."
              ELSE Len(u) + 1
IntPart(u) == SubSeq(u, 1, PointAt(u) - 1)
FracPart(u) == SubSeq(u, PointAt(u) + 1, Len(u))

float_ok(tok) ==
    LET u == Unsigned(strip(tok)) IN
        /\ AllDigits(IntPart(u))
        /\ AllDigits(FracPart(u))
        /\ Len(IntPart(u)) + Len(FracPart(u)) > 0
        /\ Len(FracPart(u)) <= FracDigits    \* the fixed-point range of the model

float_val(tok) ==
    LET t == strip(tok)
        u == Unsigned(t)
    IN SignOf(t) * (DigitsVal(IntPart(u)) * One
                     + DigitsVal(FracPart(u)) * Pow10(FracDigits - Len(FracPart(u))))

(***************************************************************************)
(* str(int) and str(float) as csv.writer applies them to a row's values:   *)
(* repr of a float is the shortest decimal that reads back, with at least  *)
(* one digit after the point.                                              *)
(***************************************************************************)
RECURSIVE NatStr(_)
NatStr(n) ==
    IF n < 10 THEN <<DigitChars[n + 1]>>
    ELSE Append(NatStr(n \div 10), DigitChars[(n % 10) + 1])

RECURSIVE FracStr(_, _)
FracStr(f, width) ==     \* f written on width digits
    IF width = 0 THEN <<>>
    ELSE Append(FracStr(f \div 10, width - 1), DigitChars[(f % 10) + 1])

RECURSIVE StripZeros(_)
StripZeros(s) ==
    IF Len(s) > 1 /\ s[Len(s)] = "0" THEN StripZeros(SubSeq(s, 1, Len(s) - 1)) ELSE s

str_int(v) == (IF v < 0 THEN <<"-">> ELSE <<>>) \o NatStr(Abs(v))

str_float(v) ==
    (IF v < 0 THEN <<"-">> ELSE <<>>)
        \o NatStr(Abs(v) \div One) \o <<".">>
        \o StripZeros(FracStr(Abs(v) % One, FracDigits))

(***************************************************************************)
(* TelemetryData and parse_csv_line (src/src/csv_parser.py).               *)
(***************************************************************************)
HeaderName == <<"t", "i", "m", "e", "_", "m", "s">>

CSV_HEADER ==
    <<"time_ms", "speed", "rpm", "throttle", "battery_temp",
      "g_force_lat", "g_force_long", "g_force_vert",
      "acceleration_x", "acceleration_y", "acceleration_z",
      "gps_latitude", "gps_longitude", "gps_altitude",
      "tire_temp_fl", "tire_temp_fr", "tire_temp_rl", "tire_temp_rr">>

CSV_DELIMITER == ";"

\* the enhanced record with two neighbouring columns exchanged
TelemetryData_swapped(v) ==
    [time_ms        |-> int_val(v[1]),
     speed          |-> float_val(v[2]),
     rpm            |-> int_val(v[3]),
     throttle       |-> float_val(v[4]),
     battery_temp   |-> float_val(v[5]),
     g_force_lat    |-> float_val(v[6]),
     g_force_long   |-> float_val(v[7]),
     g_force_vert   |-> float_val(v[8]),
     acceleration_x |-> float_val(v[9]),
     acceleration_y |-> float_val(v[10]),
     acceleration_z |-> float_val(v[11]),
     gps_latitude   |-> float_val(v[13]),
     gps_longitude  |-> float_val(v[12]),
     gps_altitude   |-> float_val(v[14]),
     tire_temp_fl   |-> float_val(v[15]),
     tire_temp_fr   |-> float_val(v[16]),
     tire_temp_rl   |-> float_val(v[17]),
     tire_temp_rr   |-> float_val(v[18])]

TelemetryData(v) ==
    [time_ms        |-> int_val(v[1]),
     speed          |-> float_val(v[2]),
     rpm            |-> int_val(v[3]),
     throttle       |-> float_val(v[4]),
     battery_temp   |-> float_val(v[5]),
     g_force_lat    |-> float_val(v[6]),
     g_force_long   |-> float_val(v[7]),
     g_force_vert   |-> float_val(v[8]),
     acceleration_x |-> float_val(v[9]),
     acceleration_y |-> float_val(v[10]),
     acceleration_z |-> float_val(v[11]),
     gps_latitude   |-> float_val(v[12]),
     gps_longitude  |-> float_val(v[13]),
     gps_altitude   |-> float_val(v[14]),
     tire_temp_fl   |-> float_val(v[15]),
     tire_temp_fr   |-> float_val(v[16]),
     tire_temp_rl   |-> float_val(v[17]),
     tire_temp_rr   |-> float_val(v[18])]

\* the legacy record with every enhanced field defaulted to 0.0
LegacyData_flat(v) ==
    [time_ms        |-> int_val(v[1]),
     speed          |-> float_val(v[2]),
     rpm            |-> int_val(v[3]),
     throttle       |-> float_val(v[4]),
     battery_temp   |-> float_val(v[5]),
     g_force_lat    |-> 0,
     g_force_long   |-> 0,
     g_force_vert   |-> 0,
     acceleration_x |-> 0,
     acceleration_y |-> 0,
     acceleration_z |-> 0,
     gps_latitude   |-> 0,
     gps_longitude  |-> 0,
     gps_altitude   |-> 0,
     tire_temp_fl   |-> 0,
     tire_temp_fr   |-> 0,
     tire_temp_rl   |-> 0,
     tire_temp_rr   |-> 0]

LegacyData(v) ==
    [time_ms        |-> int_val(v[1]),
     speed          |-> float_val(v[2]),
     rpm            |-> int_val(v[3]),
     throttle       |-> float_val(v[4]),
     battery_temp   |-> float_val(v[5]),
     g_force_lat    |-> 0,
     g_force_long   |-> 0,
     g_force_vert   |-> One,
     acceleration_x |-> 0,
     acceleration_y |-> 0,
     acceleration_z |-> 0,
     gps_latitude   |-> 0,
     gps_longitude  |-> 0,
     gps_altitude   |-> 0,
     tire_temp_fl   |-> 0,
     tire_temp_fr   |-> 0,
     tire_temp_rl   |-> 0,
     tire_temp_rr   |-> 0]

\* int() at positions 1 and 3, float() elsewhere: does any conversion raise?
ValueError(v) ==
    \E i \in 1..Len(v) : IF i \in {1, 3} THEN ~int_ok(v[i]) ELSE ~float_ok(v[i])

\* a parser that reads the first five fields of any longer line
parse_csv_line_lenient(ln) ==
    LET l == strip(ln) IN
    IF l = <<>> \/ startswith(l, HeaderName) THEN None
    ELSE LET values == split(l, CSV_DELIMITER) IN
         IF Len(values) = 18
         THEN IF ValueError(values) THEN None ELSE TelemetryData(values)
         ELSE IF Len(values) >= 5
         THEN IF ValueError(SubSeq(values, 1, 5)) THEN None
              ELSE LegacyData(SubSeq(values, 1, 5))
         ELSE None

\* a parser that stops taking five-field lines once the manager holds a record
parse_csv_line_latching(ln) ==
    LET l == strip(ln) IN
    IF l = <<>> \/ startswith(l, HeaderName) THEN None
    ELSE LET values == split(l, CSV_DELIMITER) IN
         IF Len(values) = 5 /\ update_count = 0
         THEN IF ValueError(values) THEN None ELSE LegacyData(values)
         ELSE IF Len(values) = 18
         THEN IF ValueError(values) THEN None ELSE TelemetryData(values)
         ELSE None

parse_csv_line(ln) ==
    LET l == strip(ln) IN
    IF l = <<>> \/ startswith(l, HeaderName) THEN None
    ELSE LET values == split(l, CSV_DELIMITER) IN
         IF Len(values) = 5
         THEN IF ValueError(values) THEN None ELSE LegacyData(values)
         ELSE IF Len(values) = 18
         THEN IF ValueError(values) THEN None ELSE TelemetryData(values)
         ELSE None

(***************************************************************************)
(* The five-field parser of parsing/csv_parser.py, used by the gui/ tree.  *)
(***************************************************************************)
OldTelemetryData(v) ==
    [time_ms        |-> int_val(v[1]),
     speed          |-> float_val(v[2]),
     rpm            |-> int_val(v[3]),
     throttle       |-> float_val(v[4]),
     battery_temp   |-> float_val(v[5])]

old_parse_csv_line(ln) ==
    LET l == strip(ln) IN
    IF l = <<>> \/ startswith(l, HeaderName) THEN None
    ELSE LET values == split(l, CSV_DELIMITER) IN
         IF Len(values) # 5 THEN None
         ELSE IF ValueError(values) THEN None ELSE OldTelemetryData(values)

(***************************************************************************)
(* CSVLogger.log: the row csv.writer writes for a record.  The writer of   *)
(* log_handlers/csv_logger.py is built with delimiter=config.CSV_DELIMITER;*)
(* the writer of src/src/csv_logger.py is built with csv.writer's default  *)
(* delimiter, the comma.  Both end the row with "\r\n".                    *)
(***************************************************************************)
RowValues(d) ==
    <<str_int(d.time_ms), str_float(d.speed), str_int(d.rpm), str_float(d.throttle),
      str_float(d.battery_temp), str_float(d.g_force_lat), str_float(d.g_force_long),
      str_float(d.g_force_vert), str_float(d.acceleration_x), str_float(d.acceleration_y),
      str_float(d.acceleration_z), str_float(d.gps_latitude), str_float(d.gps_longitude),
      str_float(d.gps_altitude), str_float(d.tire_temp_fl), str_float(d.tire_temp_fr),
      str_float(d.tire_temp_rl), str_float(d.tire_temp_rr)>>

writerow(values, delimiter) == join(values, delimiter) \o <<"\r", "\n">>

WriterDelimiter(v) == IF v = "log_handlers" THEN CSV_DELIMITER ELSE ","

LoggedRow(v, d) == writerow(RowValues(d), WriterDelimiter(v))

(***************************************************************************)
(* TelemetryManager (src/src/telemetry_manager.py).                        *)
(***************************************************************************)
ManagerInit ==
    /\ current = None
    /\ history = <<>>
    /\ update_count = 0

\* update without its None guard
update_unguarded(d) ==
    /\ current' = d
    /\ history' = Append(history, d)
    /\ update_count' = update_count + 1

\* update inserting at the front of the history
update_prepend(d) ==
    IF d = None
    THEN UNCHANGED <<current, history, update_count>>
    ELSE /\ current' = d
         /\ history' = <<d>> \o history
         /\ update_count' = update_count + 1

update(d) ==
    IF d = None
    THEN UNCHANGED <<current, history, update_count>>
    ELSE /\ current' = d
         /\ history' = Append(history, d)
         /\ update_count' = update_count + 1

get_current == current

get_history == history

get_history_count == Len(history)

\* Python's max(), min() and sum() over a list, and / on two numbers.  The
\* quotient is kept exact, as a fraction in lowest terms.
RECURSIVE py_max(_)
py_max(xs) ==
    IF Len(xs) = 1 THEN xs[1]
    ELSE LET m == py_max(SubSeq(xs, 1, Len(xs) - 1)) IN
         IF xs[Len(xs)] > m THEN xs[Len(xs)] ELSE m

RECURSIVE py_min(_)
py_min(xs) ==
    IF Len(xs) = 1 THEN xs[1]
    ELSE LET m == py_min(SubSeq(xs, 1, Len(xs) - 1)) IN
         IF xs[Len(xs)] < m THEN xs[Len(xs)] ELSE m

RECURSIVE py_sum(_)
py_sum(xs) == IF xs = <<>> THEN 0 ELSE py_sum(SubSeq(xs, 1, Len(xs) - 1)) + xs[Len(xs)]

RECURSIVE Gcd(_, _)
Gcd(a, b) == IF b = 0 THEN a ELSE Gcd(b, a % b)

truediv(a, b) ==
    LET g == Gcd(Abs(a), b) IN [num |-> a \div g, den |-> b \div g]

EmptyDict == [empty |-> TRUE]

\* get_stats over a window of the most recent two samples
get_stats_windowed ==
    IF history = <<>> THEN EmptyDict
    ELSE LET w == IF Len(history) > 2 THEN SubSeq(history, Len(history) - 1, Len(history))
                  ELSE history
             speeds == [i \in 1..Len(w) |-> w[i].speed]
             rpms == [i \in 1..Len(w) |-> w[i].rpm]
             temps == [i \in 1..Len(w) |-> w[i].battery_temp]
             throttles == [i \in 1..Len(w) |-> w[i].throttle]
         IN [max_speed    |-> py_max(speeds),
             min_speed    |-> py_min(speeds),
             avg_speed    |-> truediv(py_sum(speeds), Len(speeds)),
             max_rpm      |-> py_max(rpms),
             min_rpm      |-> py_min(rpms),
             avg_rpm      |-> truediv(py_sum(rpms), Len(rpms)),
             max_temp     |-> py_max(temps),
             min_temp     |-> py_min(temps),
             avg_temp     |-> truediv(py_sum(temps), Len(temps)),
             max_throttle |-> py_max(throttles),
             data_points  |-> Len(history)]

get_stats ==
    IF history = <<>> THEN EmptyDict
    ELSE LET speeds == [i \in 1..Len(history) |-> history[i].speed]
             rpms == [i \in 1..Len(history) |-> history[i].rpm]
             temps == [i \in 1..Len(history) |-> history[i].battery_temp]
             throttles == [i \in 1..Len(history) |-> history[i].throttle]
         IN [max_speed    |-> py_max(speeds),
             min_speed    |-> py_min(speeds),
             avg_speed    |-> truediv(py_sum(speeds), Len(speeds)),
             max_rpm      |-> py_max(rpms),
             min_rpm      |-> py_min(rpms),
             avg_rpm      |-> truediv(py_sum(rpms), Len(rpms)),
             max_temp     |-> py_max(temps),
             min_temp     |-> py_min(temps),
             avg_temp     |-> truediv(py_sum(temps), Len(temps)),
             max_throttle |-> py_max(throttles),
             data_points  |-> Len(history)]

\* clear_history that forgets the counter
clear_history_keeps_count ==
    /\ history' = <<>>
    /\ update_count' = update_count
    /\ current' = None

clear_history ==
    /\ history' = <<>>
    /\ update_count' = 0
    /\ current' = None

reset_stats == clear_history

(***************************************************************************)
(* A caller of the manager: any sequence of its operations, with records   *)
(* built directly as the unit tests build them.                            *)
(***************************************************************************)
Sample(t, speed, rpm, throttle, temp) ==
    [time_ms        |-> t,
     speed          |-> speed,
     rpm            |-> rpm,
     throttle       |-> throttle,
     battery_temp   |-> temp,
     g_force_lat    |-> 0,
     g_force_long   |-> 0,
     g_force_vert   |-> One,
     acceleration_x |-> 0,
     acceleration_y |-> 0,
     acceleration_z |-> 0,
     gps_latitude   |-> 0,
     gps_longitude  |-> 0,
     gps_altitude   |-> 0,
     tire_temp_fl   |-> 0,
     tire_temp_fr   |-> 0,
     tire_temp_rl   |-> 0,
     tire_temp_rr   |-> 0]

RecordPool ==
    { Sample(0,   Float(30, 0),  7000, Float(50, 0),  Float(60, 0)),
      Sample(100, Float(70, 0),  3000, Float(75, 50), Float(55, 0)),
      Sample(200, Float(50, 0),  5000, Float(0, 0),   Float(65, 25)),
      Sample(300, Float(-5, 0),  -100, Float(99, 0),  Float(-10, 0)) }

Snapshot == [current |-> current, history |-> history, update_count |-> update_count]

Idle ==     \* the parts of the state a manager caller does not touch
    /\ UNCHANGED <<file, file_pos, file_state, line_count>>
    /\ UNCHANGED <<loop, pc, line, data, running, stopped, rows, signals, accepted>>
    /\ UNCHANGED <<toks, variant, log_state, log_file, reparsed>>
    /\ UNCHANGED <<log_buf, io, raised, source, returned, logged>>
    /\ UNCHANGED proc_vars
    /\ UNCHANGED gui_vars

MgrUpdate ==
    /\ Len(history) < MaxHistory
    /\ \E d \in RecordPool :
          /\ update(d)
          /\ fed' = Append(fed, d)
    /\ op' = "update"
    /\ stats' = None
    /\ prev' = Snapshot
    /\ Idle

MgrUpdateNone ==
    /\ update(None)
    /\ fed' = fed
    /\ op' = "update_none"
    /\ stats' = None
    /\ prev' = Snapshot
    /\ Idle

MgrGetStats ==
    /\ stats' = get_stats
    /\ UNCHANGED <<current, history, update_count, fed>>
    /\ op' = "get_stats"
    /\ prev' = Snapshot
    /\ Idle

MgrClearHistory ==
    /\ clear_history
    /\ fed' = <<>>
    /\ op' = "clear_history"
    /\ stats' = None
    /\ prev' = Snapshot
    /\ Idle

MgrResetStats ==
    /\ reset_stats
    /\ fed' = <<>>
    /\ op' = "reset_stats"
    /\ stats' = None
    /\ prev' = Snapshot
    /\ Idle

InitManager ==
    /\ ManagerInit
    /\ ProcInit
    /\ stats = None
    /\ op = "init"
    /\ fed = <<>>
    /\ prev = None
    /\ file = [exists |-> FALSE, lines |-> <<>>] /\ file_pos = 0 /\ file_state = "none" /\ line_count = 0
    /\ loop = "none" /\ pc = "caller" /\ line = <<>> /\ data = None
    /\ running = FALSE /\ stopped = FALSE /\ signals = <<>> /\ accepted = <<>>
    /\ rows = <<>> /\ toks = <<>>
    /\ variant = "none" /\ log_state = "none" /\ log_file = <<>> /\ reparsed = None
    /\ log_buf = <<>> /\ io = "ok" /\ raised = "none" /\ source = "none" /\ returned = <<>> /\ logged = <<>>

NextManager ==
    \/ MgrUpdate
    \/ MgrUpdateNone
    \/ MgrGetStats
    \/ MgrClearHistory
    \/ MgrResetStats

SpecManager == InitManager /\ [][NextManager]_vars

(***************************************************************************)
(* Claims about the manager, checked under SpecManager.                    *)
(***************************************************************************)

\* C3: after any sequence of update(record), update(None), clear_history()
\* and reset_stats(), update_count = len(history) = get_history_count() = the
\* number of non-None records passed to update since the last clear, and
\* update(None) leaves current, history and update_count unchanged.
C3_CountsAgree ==
    /\ update_count = Len(history)
    /\ get_history_count = Len(history)
    /\ update_count = Len(fed)
    /\ (op = "update_none" => Snapshot = prev)

C3_Witness == op = "update_none" /\ update_count = 2 /\ Len(fed) = 2

\* C4: history is exactly the sequence of non-None records passed to update
\* since the last clear, in arrival order; an update appends at the end and
\* leaves the earlier entries as they were; current is None exactly when
\* history is empty and is otherwise the last element of history.
C4_HistoryIsArrivalOrder ==
    /\ history = fed
    /\ (op = "update" =>
            /\ Len(history) = Len(prev.history) + 1
            /\ SubSeq(history, 1, Len(prev.history)) = prev.history)
    /\ (current = None <=> history = <<>>)
    /\ (history # <<>> => current = history[Len(history)])

C4_Witness ==
    /\ op = "update"
    /\ Len(history) = 3
    /\ history[1] # history[2]
    /\ history[2] # history[3]
    /\ current = history[3]

\* C5: get_stats() returns the empty mapping on an empty history, and
\* otherwise the maximum / minimum of speed, rpm and battery_temp and the
\* maximum of throttle over every record of the history, the averages as sum
\* divided by len(history), and data_points = len(history); the call leaves
\* the manager's state as it was.
FieldValues(f) == { history[i][f] : i \in 1..Len(history) }
MaxOf(S) == CHOOSE m \in S : \A x \in S : x <= m
MinOf(S) == CHOOSE m \in S : \A x \in S : m <= x
RECURSIVE TotalFrom(_, _)
TotalFrom(f, i) == IF i > Len(history) THEN 0 ELSE history[i][f] + TotalFrom(f, i + 1)
IsMean(q, f) == q.den > 0 /\ q.num * Len(history) = q.den * TotalFrom(f, 1)

C5_StatsOverWholeHistory ==
    op = "get_stats" =>
        /\ Snapshot = prev
        /\ (history = <<>> => stats = EmptyDict)
        /\ (history # <<>> =>
                /\ DOMAIN stats = {"max_speed", "min_speed", "avg_speed",
                                   "max_rpm", "min_rpm", "avg_rpm",
                                   "max_temp", "min_temp", "avg_temp",
                                   "max_throttle", "data_points"}
                /\ stats.max_speed = MaxOf(FieldValues("speed"))
                /\ stats.min_speed = MinOf(FieldValues("speed"))
                /\ IsMean(stats.avg_speed, "speed")
                /\ stats.max_rpm = MaxOf(FieldValues("rpm"))
                /\ stats.min_rpm = MinOf(FieldValues("rpm"))
                /\ IsMean(stats.avg_rpm, "rpm")
                /\ stats.max_temp = MaxOf(FieldValues("battery_temp"))
                /\ stats.min_temp = MinOf(FieldValues("battery_temp"))
                /\ IsMean(stats.avg_temp, "battery_temp")
                /\ stats.max_throttle = MaxOf(FieldValues("throttle"))
                /\ stats.data_points = Len(history))

\* the extremes sit at the oldest record, outside any window of recent ones
C5_Witness ==
    /\ op = "get_stats"
    /\ Len(history) = 3
    /\ history[1].speed > history[2].speed
    /\ history[1].speed > history[3].speed
    /\ stats.max_speed = history[1].speed
    /\ stats.data_points = 3

\* C6: clear_history() and reset_stats() return the manager to its
\* just-constructed state from any state (history empty, current None,
\* update_count 0, get_history_count() 0, get_stats() empty), also when it
\* was already cleared, and the records fed afterwards are counted from zero.
C6_ClearRestoresInitialState ==
    /\ (op \in {"clear_history", "reset_stats"} =>
            /\ ManagerInit
            /\ get_history_count = 0
            /\ get_current = None
            /\ get_stats = EmptyDict)
    /\ (op = "update" /\ prev.history = <<>> =>
            update_count = 1 /\ get_history_count = 1)

C6_Witness ==
    /\ op \in {"clear_history", "reset_stats"}
    /\ prev.update_count = 3
    /\ Len(prev.history) = 3
    /\ history = <<>>

(***************************************************************************)
(* CSVLogger: start of logging, log and close, for both variants.  The     *)
(* column names after the first are written as one symbol each.            *)
(***************************************************************************)
HeaderRow(v) ==
    writerow(<<HeaderName,
               <<IF v = "log_handlers" THEN "speed_kmh" ELSE "speed">>,
               <<"rpm">>, <<"throttle">>, <<"battery_temp">>,
               <<"g_force_lat">>, <<"g_force_long">>, <<"g_force_vert">>,
               <<"acceleration_x">>, <<"acceleration_y">>, <<"acceleration_z">>,
               <<"gps_latitude">>, <<"gps_longitude">>, <<"gps_altitude">>,
               <<"tire_temp_fl">>, <<"tire_temp_fr">>, <<"tire_temp_rl">>,
               <<"tire_temp_rr">>>>, WriterDelimiter(v))

\* The logger just after start_logging() (src/src) or construction
\* (log_handlers).  Only _init_file of log_handlers flushes the header.
LoggerStarted(v) ==
    /\ variant = v
    /\ log_state = "open"
    /\ log_file = IF v = "log_handlers" THEN <<HeaderRow(v)>> ELSE <<>>
    /\ log_buf = IF v = "log_handlers" THEN <<>> ELSE <<HeaderRow(v)>>

\* start_logging() of src/src/csv_logger.py; __init__ of log_handlers/csv_logger.py
start_logging(v) ==
    /\ variant' = v
    /\ log_state' = "open"
    /\ log_file' = IF v = "log_handlers" THEN <<HeaderRow(v)>> ELSE <<>>
    /\ log_buf' = IF v = "log_handlers" THEN <<>> ELSE <<HeaderRow(v)>>

\* the record has the attributes the row is built from
Has18(d) == "g_force_lat" \in DOMAIN d

\* whether an exception leaves log(): only from the logger of src/src, when
\* it is started, the record has a time_ms attribute, and building or
\* writing the row fails
log_raises(d) ==
    /\ variant # "log_handlers"
    /\ log_state = "open"
    /\ "time_ms" \in DOMAIN d
    /\ ~(Has18(d) /\ io' = "ok")

\* log() that writes nothing
log_dropping(d) == UNCHANGED <<log_file, log_buf, raised>>

\* CSVLogger.log.  io' is the outcome of the write this call performs.
\*   log_handlers: writerow and flush inside try/except Exception; building
\*     the row from a record without the enhanced attributes, a failed write
\*     and a write to the closed file all end in the except branch.
\*   src/src: writerow only, no flush and no try; nothing is done unless the
\*     logger is started and the record has a time_ms attribute.
log(d) ==
    IF variant = "log_handlers"
    THEN /\ IF log_state = "open" /\ Has18(d) /\ io' = "ok"
            THEN /\ log_file' = log_file \o log_buf \o <<LoggedRow(variant, d)>>
                 /\ log_buf' = <<>>
            ELSE UNCHANGED <<log_file, log_buf>>
         /\ raised' = raised
    ELSE /\ IF log_state = "open" /\ Has18(d) /\ io' = "ok"
            THEN /\ log_buf' = Append(log_buf, LoggedRow(variant, d))
                 /\ UNCHANGED log_file
            ELSE UNCHANGED <<log_file, log_buf>>
         /\ raised' = IF log_raises(d) THEN "log" ELSE raised

\* close() that closes the handle a second time
CSVLogger_close_twice ==
    /\ log_state' = "closed"
    /\ log_file' = log_file \o log_buf
    /\ log_buf' = <<>>
    /\ raised' = IF log_state = "closed" THEN "close" ELSE raised

\* CSVLogger.close: closing the file writes out what the buffer holds
CSVLogger_close ==
    /\ IF log_state = "open"
       THEN /\ log_state' = "closed"
            /\ log_file' = log_file \o log_buf
            /\ log_buf' = <<>>
       ELSE UNCHANGED <<log_state, log_file, log_buf>>
    /\ raised' = raised

(***************************************************************************)
(* A caller of the parser.  The input line is assembled from field tokens  *)
(* taken from a table that states, token by token, what Python's int() and *)
(* float() make of it.                                                     *)
(***************************************************************************)
Tok(text, isint, isfloat, ival, fval) ==
    [text |-> text, int |-> isint, float |-> isfloat, ival |-> ival, fval |-> fval]

IntTokens ==
    { Tok(<<"1", "0", "0", "0">>, TRUE, TRUE, 1000, Float(1000, 0)),
      Tok(<<"-", "7">>,           TRUE, TRUE, -7,   Float(-7, 0)),
      Tok(<<" ", "4", "2">>,      TRUE, TRUE, 42,   Float(42, 0)),
      Tok(<<"0", "0", "7">>,      TRUE, TRUE, 7,    Float(7, 0)),
      Tok(<<"+", "5">>,           TRUE, TRUE, 5,    Float(5, 0)),
      Tok(<<"0">>,                TRUE, TRUE, 0,    0) }

FloatTokens ==
    { Tok(<<"4", "5", ".", "2">>,        FALSE, TRUE, 0, Float(45, 20)),
      Tok(<<".", "5">>,                  FALSE, TRUE, 0, Float(0, 50)),
      Tok(<<"5", ".">>,                  FALSE, TRUE, 0, Float(5, 0)),
      Tok(<<"-", "0", ".", "7", "8">>,   FALSE, TRUE, 0, -Float(0, 78)),
      Tok(<<"6", "2", ".", "3", "\n">>,  FALSE, TRUE, 0, Float(62, 30)) }

JunkTokens ==
    { Tok(<<>>,                          FALSE, FALSE, 0, 0),
      Tok(<<" ", "\n">>,                 FALSE, FALSE, 0, 0),
      Tok(<<"x">>,                       FALSE, FALSE, 0, 0),
      Tok(<<"1", ".", "2", ".", "3">>,   FALSE, FALSE, 0, 0),
      Tok(<<"-">>,                       FALSE, FALSE, 0, 0),
      Tok(<<".">>,                       FALSE, FALSE, 0, 0),
      Tok(<<"1", " ", "2">>,             FALSE, FALSE, 0, 0),
      Tok(HeaderName,                    FALSE, FALSE, 0, 0),
      Tok(<<"4", ",", "5">>,             FALSE, FALSE, 0, 0) }

TokenPool == IntTokens \cup FloatTokens \cup JunkTokens

\* a well-formed token for column i, different for every column
BaseTok(i) ==
    IF i = 1 THEN Tok(<<"1", "0", "0", "0">>, TRUE, TRUE, 1000, Float(1000, 0))
    ELSE IF i = 3 THEN Tok(<<"8", "1", "2", "0">>, TRUE, TRUE, 8120, Float(8120, 0))
    ELSE Tok(NatStr(i) \o <<".", "5">>, FALSE, TRUE, 0, Float(i, 50))

BaseLine(n) == [j \in 1..n |-> BaseTok(j)]

ParserInputs ==
    { BaseLine(n) : n \in 0..MaxFields }
        \cup { <<t>> : t \in TokenPool }
        \cup { [BaseLine(5) EXCEPT ![i] = t] : i \in 1..5, t \in TokenPool }
        \cup { [BaseLine(18) EXCEPT ![i] = t] : i \in 1..18, t \in TokenPool }
        \cup UNION { { [BaseLine(n) EXCEPT ![i] = t] : i \in {1, n}, t \in JunkTokens }
                     : n \in {4, 6, 17} }

LineOf(ts) == join([j \in 1..Len(ts) |-> ts[j].text], CSV_DELIMITER)

InitParser ==
    /\ ManagerInit
    /\ ProcInit
    /\ stats = None /\ op = "init" /\ fed = <<>> /\ prev = None
    /\ file = [exists |-> FALSE, lines |-> <<>>] /\ file_pos = 0 /\ file_state = "none" /\ line_count = 0
    /\ loop = "none" /\ running = FALSE /\ stopped = FALSE
    /\ signals = <<>> /\ accepted = <<>> /\ rows = <<>>
    /\ toks \in ParserInputs
    /\ line = LineOf(toks)
    /\ data = None
    /\ pc = "input"
    /\ \E v \in {"src", "log_handlers"} : LoggerStarted(v)
    /\ reparsed = None
    /\ io = "ok" /\ raised = "none" /\ source = "none" /\ returned = <<>> /\ logged = <<>>

ParserFrame ==
    /\ UNCHANGED <<current, history, update_count, stats, op, fed, prev>>
    /\ UNCHANGED <<file, file_pos, file_state, line_count>>
    /\ UNCHANGED <<loop, running, stopped, rows, signals, accepted>>
    /\ UNCHANGED <<toks, line, variant, source, returned, logged>>
    /\ UNCHANGED proc_vars
    /\ UNCHANGED gui_vars

Parse ==
    /\ pc = "input"
    /\ data' = parse_csv_line(line)
    /\ pc' = "parsed"
    /\ UNCHANGED <<log_file, reparsed, log_buf, io, log_state, raised>>
    /\ ParserFrame

Log ==
    /\ pc = "parsed"
    /\ data # None
    /\ io' = "ok"
    /\ log(data)
    /\ pc' = "logged"
    /\ UNCHANGED <<data, reparsed, log_state>>
    /\ ParserFrame

CloseLog ==
    /\ pc = "logged"
    /\ CSVLogger_close
    /\ pc' = "log_closed"
    /\ UNCHANGED <<data, reparsed, io>>
    /\ ParserFrame

Reparse ==
    /\ pc = "log_closed"
    /\ reparsed' = parse_csv_line(log_file[Len(log_file)])
    /\ pc' = "reparsed"
    /\ UNCHANGED <<data, log_file, log_buf, io, log_state, raised>>
    /\ ParserFrame

NextParser ==
    \/ Parse
    \/ Log
    \/ CloseLog
    \/ Reparse

SpecParser == InitParser /\ [][NextParser]_vars

(***************************************************************************)
(* Claims about the parser and the logger, checked under SpecParser.  The  *)
(* expected outcome is read off the token table, not computed by the       *)
(* parser's own conversions.                                               *)
(***************************************************************************)
IsIntColumn(i) == i \in {1, 3}
Converts(ts) ==
    \A i \in 1..Len(ts) : IF IsIntColumn(i) THEN ts[i].int ELSE ts[i].float
ValueAt(ts, i) == IF IsIntColumn(i) THEN ts[i].ival ELSE ts[i].fval
ColumnOf(name) == CHOOSE i \in 1..Len(CSV_HEADER) : CSV_HEADER[i] = name
AllColumns == { CSV_HEADER[i] : i \in 1..Len(CSV_HEADER) }
Expected18(ts) == [name \in AllColumns |-> ValueAt(ts, ColumnOf(name))]
Expected5(ts) ==
    [name \in AllColumns |->
        IF ColumnOf(name) <= 5 THEN ValueAt(ts, ColumnOf(name))
        ELSE IF name = "g_force_vert" THEN One
        ELSE 0]
IsBlank(ts) ==
    \/ ts = <<>>
    \/ Len(ts) = 1 /\ \A k \in 1..Len(ts[1].text) : ts[1].text[k] \in {" ", "\n"}
IsHeaderLine(ts) == ts # <<>> /\ ts[1].text = HeaderName

\* C7: parse_csv_line returns None for every line that is empty after
\* stripping, begins with the header column name time_ms, has a field count
\* other than 5 or 18, or has a field that fails int() (time_ms, rpm) or
\* float() (every other field).
C7_RejectionSet ==
    pc # "input" =>
        (   \/ IsBlank(toks)
            \/ IsHeaderLine(toks)
            \/ Len(toks) \notin {5, 18}
            \/ ~Converts(toks)
         => data = None)

C7_Witness ==
    /\ pc = "parsed"
    /\ Len(toks) = 17
    /\ Converts(toks)
    /\ data = None

\* C8: for every valid 5-field line the record holds the five input values
\* in order, g_force_vert = 1.0 and 0.0 in the twelve other enhanced fields.
C8_LegacyWidening ==
    pc # "input" /\ Len(toks) = 5 /\ Converts(toks) =>
        /\ data # None
        /\ DOMAIN data = AllColumns
        /\ data.time_ms = toks[1].ival
        /\ data.speed = toks[2].fval
        /\ data.rpm = toks[3].ival
        /\ data.throttle = toks[4].fval
        /\ data.battery_temp = toks[5].fval
        /\ data.g_force_vert = One
        /\ \A name \in AllColumns :
              ColumnOf(name) > 5 /\ name # "g_force_vert" => data[name] = 0

C8_Witness ==
    /\ pc = "parsed"
    /\ Len(toks) = 5
    /\ toks[4].text = <<"-", "0", ".", "7", "8">>
    /\ data # None
    /\ data.throttle = -Float(0, 78)
    /\ data.g_force_vert = One

\* C9: for a 5-field or 18-field line the result is a record only if every
\* field converts, and then all 18 fields are set, field i of an 18-field
\* line being the conversion of token i; if the field at any one position
\* fails conversion the result is None.
C9_AllOrNothing ==
    pc # "input" /\ Len(toks) \in {5, 18} =>
        IF Converts(toks)
        THEN data = (IF Len(toks) = 18 THEN Expected18(toks) ELSE Expected5(toks))
        ELSE data = None

C9_Witness ==
    /\ pc = "parsed"
    /\ Len(toks) = 18
    /\ ~toks[18].float
    /\ \A i \in 1..17 : IF IsIntColumn(i) THEN toks[i].int ELSE toks[i].float
    /\ data = None

\* C10: for every record obtained by parsing a valid 18-field line, the row
\* CSVLogger.log writes for it parses back to a record (not None) whose 18
\* fields equal those of the original record.
C10_RoundTrip ==
    pc = "reparsed" /\ Len(toks) = 18 /\ Converts(toks) =>
        reparsed # None /\ reparsed = data

\* C10, the part that holds: the row written by the logger of
\* log_handlers/csv_logger.py, whose writer uses the semicolon, reads back.
C10_RoundTripLogHandlers ==
    pc = "reparsed" /\ variant = "log_handlers" => reparsed = data

(***************************************************************************)
(* CSVSource (acquisition/csv_source.py).  file.exists tells whether open() *)
(* finds the file; file.lines are its raw lines, terminators included.     *)
(***************************************************************************)
is_connected == file_state = "open"

readline == IF file_pos < Len(file.lines) THEN file.lines[file_pos + 1] ELSE <<>>

\* what read() returns
read_value == IF ~is_connected THEN <<>> ELSE strip(readline)

\* read() that counts every call, empty results included
read_counting_calls ==
    /\ file_pos' = IF is_connected /\ file_pos < Len(file.lines)
                   THEN file_pos + 1 ELSE file_pos
    /\ line_count' = line_count + 1
    /\ UNCHANGED <<file, file_state>>

\* what read() does to the source
read ==
    /\ file_pos' = IF is_connected /\ file_pos < Len(file.lines)
                   THEN file_pos + 1 ELSE file_pos
    /\ line_count' = IF read_value # <<>> THEN line_count + 1 ELSE line_count
    /\ UNCHANGED <<file, file_state>>

CSVSource_close ==
    /\ file_state' = IF file_state = "open" THEN "closed" ELSE file_state
    /\ UNCHANGED <<file, file_pos, line_count>>

(***************************************************************************)
(* The replay loops: main_replay (src/src/main.py), which parses with      *)
(* parse_csv_line of src/src/csv_parser.py, and ReplayThread.run           *)
(* (gui/replay_mode_widget.py), which parses with the parse_csv_line of    *)
(* parsing/csv_parser.py.  Nothing the loop body calls raises on a string, *)
(* so the loops' except branches are entered only when the file cannot be  *)
(* opened.                                                                 *)
(***************************************************************************)
parse(ln) == IF loop = "ReplayThread" THEN old_parse_csv_line(ln) ELSE parse_csv_line(ln)

emit(sig) == signals' = IF loop = "ReplayThread" THEN Append(signals, sig) ELSE signals

ReplayFrame ==
    /\ UNCHANGED <<op, prev, loop, rows, toks>>
    /\ UNCHANGED <<variant, log_state, log_file, reparsed>>
    /\ UNCHANGED <<log_buf, io, raised, source, returned, logged>>
    /\ UNCHANGED proc_vars
    /\ UNCHANGED gui_vars

\* source = CSVSource(csv_file); in the thread, then self.running = True
Open ==
    /\ pc = "start"
    /\ IF ~file.exists
       THEN /\ pc' = "done"
            /\ signals' = Append(signals, "error")
            /\ UNCHANGED <<file_state, running>>
       ELSE /\ file_state' = "open"
            /\ pc' = "skip_header"
            /\ running' = (loop = "ReplayThread")
            /\ emit("status")
    /\ UNCHANGED <<current, history, update_count, stats, fed>>
    /\ UNCHANGED <<file, file_pos, line_count, line, data, stopped, accepted>>
    /\ ReplayFrame

\* source.read(), result dropped
SkipHeader ==
    /\ pc = "skip_header"
    /\ read
    /\ pc' = "read"
    /\ UNCHANGED <<current, history, update_count, stats, fed>>
    /\ UNCHANGED <<line, data, running, stopped, signals, accepted>>
    /\ ReplayFrame

\* while True / while self.running:  line = source.read();  if not line: break
LoopRead ==
    /\ pc = "read"
    /\ IF loop = "ReplayThread" /\ ~running
       THEN /\ pc' = "close"
            /\ UNCHANGED <<file, file_pos, file_state, line_count, line>>
       ELSE /\ read
            /\ line' = read_value
            /\ pc' = IF read_value = <<>> THEN "close" ELSE "parse"
    /\ UNCHANGED <<current, history, update_count, stats, fed>>
    /\ UNCHANGED <<data, running, stopped, signals, accepted>>
    /\ ReplayFrame

\* the loop leaving on a line that does not parse
LoopParse_break ==
    /\ pc = "parse"
    /\ data' = parse(line)
    /\ pc' = IF parse(line) = None THEN "close" ELSE "update"
    /\ UNCHANGED <<current, history, update_count, stats, fed>>
    /\ UNCHANGED <<file, file_pos, file_state, line_count>>
    /\ UNCHANGED <<line, running, stopped, signals, accepted>>
    /\ ReplayFrame

\* data = parse_csv_line(line);  if data is None: continue
LoopParse ==
    /\ pc = "parse"
    /\ data' = parse(line)
    /\ pc' = IF parse(line) = None THEN "read" ELSE "update"
    /\ UNCHANGED <<current, history, update_count, stats, fed>>
    /\ UNCHANGED <<file, file_pos, file_state, line_count>>
    /\ UNCHANGED <<line, running, stopped, signals, accepted>>
    /\ ReplayFrame

\* manager.update(data);  display.update(data) / self.data_received.emit(data)
LoopUpdate ==
    /\ pc = "update"
    /\ update(data)
    /\ fed' = Append(fed, data)
    /\ accepted' = Append(accepted, data)
    /\ emit("data")
    /\ pc' = "read"
    /\ UNCHANGED <<stats, line, data, running, stopped>>
    /\ UNCHANGED <<file, file_pos, file_state, line_count>>
    /\ ReplayFrame

\* source.close(); then print_footer(manager.get_stats()) in main_replay,
\* the "Replay finished" status and the finished signal in the thread
Close ==
    /\ pc = "close"
    /\ CSVSource_close
    /\ IF loop = "ReplayThread"
       THEN /\ signals' = signals \o <<"status", "finished">>
            /\ UNCHANGED stats
       ELSE /\ stats' = get_stats
            /\ UNCHANGED signals
    /\ pc' = "done"
    /\ UNCHANGED <<current, history, update_count, fed>>
    /\ UNCHANGED <<line, data, running, stopped, accepted>>
    /\ ReplayFrame

\* ReplayThread.stop(), called from the presentation thread
Stop ==
    /\ loop = "ReplayThread"
    /\ pc # "done"
    /\ ~stopped
    /\ running' = FALSE
    /\ stopped' = TRUE
    /\ UNCHANGED <<current, history, update_count, stats, fed>>
    /\ UNCHANGED <<file, file_pos, file_state, line_count>>
    /\ UNCHANGED <<pc, line, data, signals, accepted>>
    /\ ReplayFrame

(***************************************************************************)
(* The files replayed: an optional header line, then up to MaxLines lines  *)
(* taken from a pool of rows, each ended by a newline.                     *)
(***************************************************************************)
Junk(text) == Tok(text, FALSE, FALSE, 0, 0)

RowA ==     \* 1000;45.2;8120;.5;-0.78
    <<BaseTok(1),
      Tok(<<"4", "5", ".", "2">>, FALSE, TRUE, 0, Float(45, 20)),
      BaseTok(3),
      Tok(<<".", "5">>, FALSE, TRUE, 0, Float(0, 50)),
      Tok(<<"-", "0", ".", "7", "8">>, FALSE, TRUE, 0, -Float(0, 78))>>

RowB ==     \* -7;5.;007;45.2;0
    <<Tok(<<"-", "7">>, TRUE, TRUE, -7, Float(-7, 0)),
      Tok(<<"5", ".">>, FALSE, TRUE, 0, Float(5, 0)),
      Tok(<<"0", "0", "7">>, TRUE, TRUE, 7, Float(7, 0)),
      Tok(<<"4", "5", ".", "2">>, FALSE, TRUE, 0, Float(45, 20)),
      Tok(<<"0">>, TRUE, TRUE, 0, 0)>>

HeaderRowToks ==
    <<Junk(HeaderName), Junk(<<"speed_kmh">>), Junk(<<"rpm">>),
      Junk(<<"throttle">>), Junk(<<"battery_temp">>)>>

RowPool ==
    <<RowA,                                 \* a valid 5-field row
      RowB,                                 \* another one
      BaseLine(18),                         \* a valid 18-field row
      <<Junk(<<"x">>), Junk(<<"x">>)>>,     \* wrong field count
      [RowA EXCEPT ![3] = Junk(<<"x">>)],   \* a field that is not a number
      HeaderRowToks,                        \* a header line
      <<>>>>                                \* a blank line

RawLine(ts) == LineOf(ts) \o <<"\n">>

NoFile == [exists |-> FALSE, lines |-> <<>>]

LinesOf(r) ==
    (IF r.header THEN <<RawLine(HeaderRowToks)>> ELSE <<>>)
        \o [i \in 1..Len(r.body) |-> RawLine(RowPool[r.body[i]])]

ReplayFiles ==
    { [header |-> h, body |-> b] :
        h \in BOOLEAN,
        b \in UNION { [1..n -> 1..Len(RowPool)] : n \in 0..MaxLines } }

Init ==
    /\ ManagerInit
    /\ ProcInit
    /\ stats = None /\ op = "init" /\ fed = <<>> /\ prev = None
    /\ loop \in {"main_replay", "ReplayThread"}
    /\ rows \in ReplayFiles
    /\ file \in {[exists |-> TRUE, lines |-> LinesOf(rows)], NoFile}
    /\ ~file.exists => rows = [header |-> FALSE, body |-> <<>>]
    /\ file_pos = 0 /\ file_state = "none" /\ line_count = 0
    /\ pc = "start" /\ line = <<>> /\ data = None
    /\ running = FALSE /\ stopped = FALSE /\ signals = <<>> /\ accepted = <<>>
    /\ toks = <<>>
    /\ variant = "none" /\ log_state = "none" /\ log_file = <<>> /\ reparsed = None
    /\ log_buf = <<>> /\ io = "ok" /\ raised = "none" /\ source = "csv" /\ returned = <<>> /\ logged = <<>>

Next ==
    \/ Open
    \/ SkipHeader
    \/ LoopRead
    \/ LoopParse
    \/ LoopUpdate
    \/ Close
    \/ Stop

Spec == Init /\ [][Next]_vars

(***************************************************************************)
(* Claims about the replay loops, checked under Spec.  What a row should   *)
(* yield is read off the token table.                                      *)
(***************************************************************************)
Body(i) == RowPool[rows.body[i]]
RowValid(ts) == Len(ts) \in {5, 18} /\ Converts(ts)
RowExpected(ts) == IF Len(ts) = 18 THEN Expected18(ts) ELSE Expected5(ts)
AllValid == \A i \in 1..Len(rows.body) : RowValid(Body(i))
NoBlankRow == \A i \in 1..Len(rows.body) : Body(i) # <<>>
RowSpeeds == { Body(i)[2].fval : i \in 1..Len(rows.body) }

RECURSIVE ValidRecords(_)
ValidRecords(i) ==     \* the records of the valid rows from row i on, in file order
    IF i > Len(rows.body) THEN <<>>
    ELSE IF RowValid(Body(i)) THEN <<RowExpected(Body(i))>> \o ValidRecords(i + 1)
    ELSE ValidRecords(i + 1)

RanToEndOfFile == pc = "done" /\ file.exists /\ ~stopped

\* C1: for a file of one header line followed by k lines that are each a
\* valid 5-field or 18-field record, the replay loop ends with
\* get_history_count() = k and get_stats()['max_speed'] the largest speed
\* among those k lines.
C1_ReplayEndToEnd ==
    RanToEndOfFile /\ rows.header /\ AllValid =>
        /\ get_history_count = Len(rows.body)
        /\ (Len(rows.body) > 0 => get_stats.max_speed = MaxOf(RowSpeeds))

\* C1, the part that holds: main_replay of src/src/main.py, whose parser
\* takes both formats.
C1_MainReplayEndToEnd ==
    RanToEndOfFile /\ loop = "main_replay" /\ rows.header /\ AllValid =>
        /\ get_history_count = Len(rows.body)
        /\ (Len(rows.body) > 0 => stats.max_speed = MaxOf(RowSpeeds))

Timeout == <<>>
SerialException == <<"SerialException">>
BadByte == "<ff>"       \* a byte that is not valid UTF-8

ser_readline == IF file_pos < Len(file.lines) THEN file.lines[file_pos + 1] ELSE Timeout

\* bytes.decode(errors='ignore')
decode(bytes) == SelectSeq(bytes, LAMBDA c : c # BadByte)

\* what SerialSource.read() returns
SerialSource_read_value ==
    IF ~is_connected THEN <<>>
    ELSE IF ser_readline = SerialException THEN <<>>
    ELSE strip(decode(ser_readline))

\* what SerialSource.read() does to the source
SerialSource_read ==
    /\ file_pos' = IF is_connected /\ file_pos < Len(file.lines)
                   THEN file_pos + 1 ELSE file_pos
    /\ UNCHANGED <<file, file_state, line_count>>

SerialSource_close ==
    /\ file_state' = IF file_state = "open" THEN "closed" ELSE file_state
    /\ UNCHANGED <<file, file_pos, line_count>>

\* the source in use, whichever kind it is
source_read_value == IF source = "serial" THEN SerialSource_read_value ELSE read_value
source_read == IF source = "serial" THEN SerialSource_read ELSE read

source_close ==
    /\ IF source = "serial" THEN SerialSource_close ELSE CSVSource_close
    /\ raised' = raised

SerialPool ==
    <<<<BadByte>> \o RawLine(RowA),         \* a valid 5-field line after a stray byte
      RawLine(BaseLine(18)),                \* a valid 18-field line
      <<"x", ";", "x", "\n">>,              \* a line that does not parse
      Timeout,
      SerialException>>

SerialInputs == UNION { [1..n -> {SerialPool[k] : k \in 1..Len(SerialPool)}] : n \in 0..MaxLines }

(***************************************************************************)
(* A caller of one resource: a source that has been constructed, or a      *)
(* logger that has been constructed, on which it calls the operations in   *)
(* any order.                                                              *)
(***************************************************************************)
MaxReads == MaxLines + 3

LogPool ==
    { Sample(0, Float(30, 0), 7000, Float(50, 0), Float(60, 0)),
      Sample(300, Float(-5, 0), -100, Float(99, 0), Float(-10, 0)),
      [time_ms |-> 100, speed |-> Float(70, 0), rpm |-> 3000,
       throttle |-> Float(75, 50), battery_temp |-> Float(55, 0)],
      None }

InitResources ==
    /\ ManagerInit
    /\ ProcInit
    /\ stats = None /\ op = "init" /\ fed = <<>> /\ prev = None
    /\ loop = "none" /\ line = <<>> /\ data = None
    /\ running = FALSE /\ stopped = FALSE /\ signals = <<>> /\ accepted = <<>>
    /\ toks = <<>> /\ reparsed = None
    /\ io = "ok" /\ raised = "none" /\ returned = <<>> /\ logged = <<>>
    /\ file_pos = 0 /\ line_count = 0
    /\ pc \in {"source_caller", "logger_caller"}
    /\ IF pc = "source_caller"
       THEN /\ source \in {"csv", "serial"}
            /\ IF source = "csv"
               THEN /\ rows \in ReplayFiles
                    /\ file = [exists |-> TRUE, lines |-> LinesOf(rows)]
               ELSE /\ rows = <<>>
                    /\ \E ls \in SerialInputs : file = [exists |-> TRUE, lines |-> ls]
            /\ file_state = "open"
            /\ variant = "none" /\ log_state = "none" /\ log_file = <<>> /\ log_buf = <<>>
       ELSE /\ source = "none" /\ rows = <<>> /\ file = NoFile /\ file_state = "none"
            /\ \/ variant = "src" /\ log_state = "none" /\ log_file = <<>> /\ log_buf = <<>>
               \/ LoggerStarted("log_handlers")

ResourceFrame ==
    /\ UNCHANGED <<current, history, update_count, stats, fed, prev>>
    /\ UNCHANGED <<loop, pc, line, data, running, stopped, rows, signals, accepted>>
    /\ UNCHANGED <<toks, reparsed, source>>
    /\ UNCHANGED proc_vars
    /\ UNCHANGED gui_vars

SrcRead ==
    /\ pc = "source_caller"
    /\ Len(returned) < MaxReads
    /\ source_read
    /\ returned' = Append(returned, source_read_value)
    /\ op' = "read"
    /\ UNCHANGED <<variant, log_state, log_file, log_buf, io, raised, logged>>
    /\ ResourceFrame

SrcClose ==
    /\ pc = "source_caller"
    /\ source_close
    /\ op' = "close"
    /\ UNCHANGED <<variant, log_state, log_file, log_buf, io, returned, logged>>
    /\ ResourceFrame

LogStart ==
    /\ pc = "logger_caller"
    /\ variant = "src" /\ log_state = "none"
    /\ start_logging("src")
    /\ op' = "start_logging"
    /\ UNCHANGED <<file, file_pos, file_state, line_count, io, raised, returned, logged>>
    /\ ResourceFrame

LogRecord ==
    /\ pc = "logger_caller"
    /\ Len(logged) < MaxHistory
    /\ \E d \in LogPool, o \in {"ok", "error"} :
          /\ io' = o
          /\ log(d)
          /\ logged' = Append(logged, [record |-> d, io |-> o, state |-> log_state,
                                       threw |-> log_raises(d)])
    /\ op' = "log"
    /\ UNCHANGED <<file, file_pos, file_state, line_count, variant, log_state, returned>>
    /\ ResourceFrame

LogClose ==
    /\ pc = "logger_caller"
    /\ CSVLogger_close
    /\ op' = "close"
    /\ UNCHANGED <<file, file_pos, file_state, line_count, variant, io, returned, logged>>
    /\ ResourceFrame

NextResources ==
    \/ SrcRead
    \/ SrcClose
    \/ LogStart
    \/ LogRecord
    \/ LogClose

SpecResources == InitResources /\ [][NextResources]_vars

(***************************************************************************)
(* Claims about the file source.                                           *)
(***************************************************************************)
\* C11: read() of the file source returns the empty string only when the
\* stream has ended, so a replay loop that leaves on a falsy read does so
\* only after the last line of the file has been consumed, whatever the
\* lines before it hold.
C11_FalsyReadOnlyAtEndOfFile ==
    pc = "close" /\ ~stopped => file_pos = Len(file.lines)

\* C11, where it holds: files without a blank row are read to their end.
C11_NoBlankRowReadToEnd ==
    pc = "close" /\ ~stopped /\ NoBlankRow => file_pos = Len(file.lines)

\* the text of line k of the file the driver assembled, without its newline
FileText(k) ==
    IF rows.header
    THEN IF k = 1 THEN LineOf(HeaderRowToks) ELSE LineOf(Body(k - 1))
    ELSE LineOf(Body(k))

\* C12: CSVSource.read() returns the lines of the file one per call in file
\* order, the header line first when there is one; after end of file (and
\* after close) every read() returns the empty string; line_count is the
\* number of non-empty lines returned so far.
C12_ReadsInFileOrder ==
    pc = "source_caller" /\ source = "csv" =>
        /\ file_pos <= Len(file.lines)
        /\ file_pos <= Len(returned)
        /\ is_connected =>
              file_pos = IF Len(returned) < Len(file.lines)
                         THEN Len(returned) ELSE Len(file.lines)
        /\ \A k \in 1..Len(returned) :
              returned[k] = IF k <= file_pos THEN FileText(k) ELSE <<>>
        /\ line_count = Cardinality({ k \in 1..Len(returned) : returned[k] # <<>> })

\* C12: line_count never decreases.
C12_LineCountMonotone == [][line_count' >= line_count]_vars

C12_Witness ==
    /\ pc = "source_caller" /\ source = "csv" /\ is_connected
    /\ rows.header /\ Len(rows.body) = 2 /\ NoBlankRow
    /\ Len(returned) = Len(file.lines) + 2
    /\ returned[1] = LineOf(HeaderRowToks)
    /\ returned[3] = LineOf(Body(2))
    /\ returned[4] = <<>> /\ returned[5] = <<>>
    /\ line_count = 3

(***************************************************************************)
(* The live loops: main_live (src/src/main.py) and AcquisitionThread.run   *)
(* of src/src/live_mode_widget.py and of gui/live_mode_widget.py.          *)
(*   main_live and the src/src thread build a CSVLogger of                 *)
(*     src/src/csv_logger.py and never call start_logging() on it;         *)
(*   the gui thread builds the CSVLogger of log_handlers/csv_logger.py,    *)
(*     which opens its file in the constructor, and parses with the        *)
(*     five-field parser of parsing/csv_parser.py.                         *)
(* A stop request is AcquisitionThread.stop() for the threads and the      *)
(* KeyboardInterrupt for main_live.                                        *)
(***************************************************************************)
Threads == {"AcquisitionThread", "gui_AcquisitionThread"}
LiveLoops == {"main_live"} \cup Threads

\* main_live of main.py is the fourth live loop; it is the console loop of
\* the tree the gui thread belongs to
MainLoops == {"main_live", "root_main_live"}
LogHandlersLoops == {"gui_AcquisitionThread", "root_main_live"}

live_parse(ln) ==
    IF loop \in LogHandlersLoops THEN old_parse_csv_line(ln) ELSE parse_csv_line(ln)

live_emit(sigs) == signals' = IF loop \in Threads THEN signals \o sigs ELSE signals

LiveFrame ==
    /\ UNCHANGED <<op, prev, loop, rows, toks, reparsed, source, returned, logged>>
    /\ UNCHANGED proc_vars
    /\ UNCHANGED gui_vars

\* cleanup() that leaves the source open
cleanup_leaking ==
    /\ running' = FALSE
    /\ UNCHANGED <<file, file_pos, file_state, line_count>>
    /\ IF variant # "none" THEN CSVLogger_close
                           ELSE UNCHANGED <<log_state, log_file, log_buf, raised>>

\* AcquisitionThread.cleanup; the finally block of main_live
cleanup ==
    /\ running' = FALSE
    /\ IF file_state # "none" THEN SerialSource_close
                              ELSE UNCHANGED <<file, file_pos, file_state, line_count>>
    /\ IF variant # "none" THEN CSVLogger_close
                           ELSE UNCHANGED <<log_state, log_file, log_buf, raised>>

\* a loop that goes on after the source failed to open
LiveConnect_ignoring ==
    /\ pc = "live_start"
    /\ pc' = "live_logger"
    /\ file_state' = IF file.exists THEN "open" ELSE file_state
    /\ live_emit(<<"status">>)
    /\ UNCHANGED <<current, history, update_count, stats, fed>>
    /\ UNCHANGED <<file, file_pos, line_count, line, data, running, stopped, accepted>>
    /\ UNCHANGED <<variant, log_state, log_file, log_buf, io, raised>>
    /\ LiveFrame

\* self.source = SerialSource(port, baudrate)
LiveConnect ==
    /\ pc = "live_start"
    /\ IF ~file.exists
       THEN /\ pc' = IF loop \in MainLoops THEN "done" ELSE "cleanup"
            /\ signals' = Append(signals, "error")
            /\ UNCHANGED file_state
       ELSE /\ file_state' = "open"
            /\ pc' = "live_logger"
            /\ live_emit(<<"status">>)
    /\ UNCHANGED <<current, history, update_count, stats, fed>>
    /\ UNCHANGED <<file, file_pos, line_count, line, data, running, stopped, accepted>>
    /\ UNCHANGED <<variant, log_state, log_file, log_buf, io, raised>>
    /\ LiveFrame

\* logger = CSVLogger(); in the threads, then self.running = True
LiveLogger ==
    /\ pc = "live_logger"
    /\ IF loop \in LogHandlersLoops
       THEN start_logging("log_handlers")
       ELSE UNCHANGED <<variant, log_state, log_file, log_buf>>
    /\ running' = (loop \in Threads)
    /\ live_emit(<<"status">>)
    /\ pc' = "live_top"
    /\ UNCHANGED <<current, history, update_count, stats, fed>>
    /\ UNCHANGED <<file, file_pos, file_state, line_count>>
    /\ UNCHANGED <<line, data, stopped, accepted, io, raised>>
    /\ LiveFrame

\* the loop continuing after an empty read as the replay loops do
LiveRead_break ==
    /\ pc = "live_top"
    /\ IF loop \in Threads /\ ~running
       THEN /\ pc' = "cleanup"
            /\ UNCHANGED <<file, file_pos, file_state, line_count, line>>
       ELSE /\ SerialSource_read
            /\ line' = SerialSource_read_value
            /\ pc' = IF SerialSource_read_value = <<>> THEN "cleanup" ELSE "live_parse"
    /\ UNCHANGED <<current, history, update_count, stats, fed>>
    /\ UNCHANGED <<data, running, stopped, signals, accepted>>
    /\ UNCHANGED <<variant, log_state, log_file, log_buf, io, raised>>
    /\ LiveFrame

\* while True / while self.running:  line = source.read();  if not line: continue
LiveRead ==
    /\ pc = "live_top"
    /\ IF loop \in Threads /\ ~running
       THEN /\ pc' = "cleanup"
            /\ UNCHANGED <<file, file_pos, file_state, line_count, line>>
       ELSE /\ SerialSource_read
            /\ line' = SerialSource_read_value
            /\ pc' = IF SerialSource_read_value = <<>> THEN "live_top" ELSE "live_parse"
    /\ UNCHANGED <<current, history, update_count, stats, fed>>
    /\ UNCHANGED <<data, running, stopped, signals, accepted>>
    /\ UNCHANGED <<variant, log_state, log_file, log_buf, io, raised>>
    /\ LiveFrame

\* data = parse_csv_line(line);  if data is None: continue
LiveParse ==
    /\ pc = "live_parse"
    /\ data' = live_parse(line)
    /\ pc' = IF live_parse(line) = None THEN "live_top" ELSE "live_update"
    /\ UNCHANGED <<current, history, update_count, stats, fed>>
    /\ UNCHANGED <<file, file_pos, file_state, line_count>>
    /\ UNCHANGED <<line, running, stopped, signals, accepted>>
    /\ UNCHANGED <<variant, log_state, log_file, log_buf, io, raised>>
    /\ LiveFrame

\* an iteration that goes on to log and notify without updating the manager
LiveUpdate_skipping ==
    /\ pc = "live_update"
    /\ pc' = "live_log"
    /\ UNCHANGED <<current, history, update_count, stats, fed>>
    /\ UNCHANGED <<line, data, running, stopped, signals, accepted>>
    /\ UNCHANGED <<file, file_pos, file_state, line_count>>
    /\ UNCHANGED <<variant, log_state, log_file, log_buf, io, raised>>
    /\ LiveFrame

\* manager.update(data)
LiveUpdate ==
    /\ pc = "live_update"
    /\ update(data)
    /\ fed' = Append(fed, data)
    /\ pc' = "live_log"
    /\ UNCHANGED <<stats, line, data, running, stopped, signals, accepted>>
    /\ UNCHANGED <<file, file_pos, file_state, line_count>>
    /\ UNCHANGED <<variant, log_state, log_file, log_buf, io, raised>>
    /\ LiveFrame

\* logger.log(data);  display.update(data) / self.data_received.emit(...)
\* An exception leaving log() ends the loop: the thread reports it, then
\* both run their cleanup.
LiveLog ==
    /\ pc = "live_log"
    /\ \E o \in {"ok", "error"} :
          /\ io' = o
          /\ IF variant # "none" THEN log(data)
                                 ELSE UNCHANGED <<log_file, log_buf, raised>>
    /\ IF raised' # raised
       THEN /\ pc' = "cleanup"
            /\ live_emit(<<"error">>)
            /\ UNCHANGED accepted
       ELSE /\ pc' = "live_top"
            /\ live_emit(<<"data">>)
            /\ accepted' = Append(accepted, data)
    /\ UNCHANGED <<current, history, update_count, stats, fed>>
    /\ UNCHANGED <<file, file_pos, file_state, line_count>>
    /\ UNCHANGED <<line, data, running, stopped, variant, log_state>>
    /\ LiveFrame

\* finally: cleanup(); main_live also prints the final get_stats()
LiveCleanup ==
    /\ pc = "cleanup"
    /\ cleanup
    /\ IF loop \in MainLoops
       THEN stats' = get_stats /\ UNCHANGED signals
       ELSE signals' = Append(signals, "status") /\ UNCHANGED stats
    /\ pc' = "done"
    /\ UNCHANGED <<current, history, update_count, fed>>
    /\ UNCHANGED <<line, data, stopped, accepted, variant, io>>
    /\ LiveFrame

\* AcquisitionThread.stop(), called from the presentation thread
LiveStop ==
    /\ loop \in Threads
    /\ pc \in {"live_start", "live_logger", "live_top", "live_parse",
               "live_update", "live_log", "cleanup"}
    /\ ~stopped
    /\ running' = FALSE
    /\ stopped' = TRUE
    /\ UNCHANGED <<current, history, update_count, stats, fed>>
    /\ UNCHANGED <<file, file_pos, file_state, line_count>>
    /\ UNCHANGED <<pc, line, data, signals, accepted>>
    /\ UNCHANGED <<variant, log_state, log_file, log_buf, io, raised>>
    /\ LiveFrame

\* KeyboardInterrupt raised inside the try block of main_live
LiveInterrupt ==
    /\ loop \in MainLoops
    /\ pc \in {"live_top", "live_parse", "live_update", "live_log"}
    /\ stopped' = TRUE
    /\ pc' = "cleanup"
    /\ UNCHANGED <<current, history, update_count, stats, fed>>
    /\ UNCHANGED <<file, file_pos, file_state, line_count>>
    /\ UNCHANGED <<line, data, running, signals, accepted>>
    /\ UNCHANGED <<variant, log_state, log_file, log_buf, io, raised>>
    /\ LiveFrame

InitLive ==
    /\ ManagerInit
    /\ ProcInit
    /\ stats = None /\ op = "init" /\ fed = <<>> /\ prev = None
    /\ loop \in LiveLoops
    /\ rows = <<>>
    /\ \/ \E ls \in SerialInputs : file = [exists |-> TRUE, lines |-> ls]
       \/ file = NoFile
    /\ file_pos = 0 /\ file_state = "none" /\ line_count = 0
    /\ pc = "live_start" /\ line = <<>> /\ data = None
    /\ running = FALSE /\ stopped = FALSE /\ signals = <<>> /\ accepted = <<>>
    /\ toks = <<>> /\ reparsed = None
    /\ variant = (IF loop = "gui_AcquisitionThread" THEN "none" ELSE "src")
    /\ log_state = "none" /\ log_file = <<>> /\ log_buf = <<>>
    /\ io = "ok" /\ raised = "none" /\ source = "serial" /\ returned = <<>> /\ logged = <<>>

Worker ==
    \/ LiveConnect
    \/ LiveLogger
    \/ LiveRead
    \/ LiveParse
    \/ LiveUpdate
    \/ LiveLog
    \/ LiveCleanup

NextLive ==
    \/ Worker
    \/ LiveStop
    \/ LiveInterrupt

SpecLive == InitLive /\ [][NextLive]_vars

\* The live loops on inputs of at most MaxPolls chunks, with the worker
\* scheduled and every read() returning: a step the worker can take is
\* eventually taken.  LeavesParse is the parse step as the rest of the
\* program sees it: the worker moving on from live_parse with None or a
\* record.
MaxPolls == 2

InitLiveShort ==
    /\ InitLive
    /\ Len(file.lines) <= MaxPolls

LiveRecords ==
    {None} \cup { parse_csv_line(strip(decode(SerialPool[k]))) : k \in {1, 2, 3} }
           \cup { old_parse_csv_line(strip(decode(SerialPool[k]))) : k \in {1, 2, 3} }

LeavesParse ==
    /\ pc = "live_parse"
    /\ pc' \in {"live_top", "live_update"}
    /\ data' \in LiveRecords
    /\ UNCHANGED <<current, history, update_count, stats, fed>>
    /\ UNCHANGED <<file, file_pos, file_state, line_count>>
    /\ UNCHANGED <<line, running, stopped, signals, accepted>>
    /\ UNCHANGED <<variant, log_state, log_file, log_buf, io, raised>>
    /\ LiveFrame

WorkerScheduled ==
    /\ WF_vars(LiveConnect)
    /\ WF_vars(LiveLogger)
    /\ WF_vars(LiveRead)
    /\ WF_vars(LeavesParse)
    /\ WF_vars(LiveUpdate)
    /\ WF_vars(LiveLog)
    /\ WF_vars(LiveCleanup)

SpecLiveFair == InitLiveShort /\ [][NextLive]_vars /\ WorkerScheduled

\* a session of any kind: one of the replay loops or one of the live loops
InitSessions == Init \/ InitLive

NextSessions ==
    \/ Next
    \/ NextLive

SpecSessions == InitSessions /\ [][NextSessions]_vars

(***************************************************************************)
(* Claims about the sessions.                                              *)
(***************************************************************************)
StreamingPcs ==
    {"skip_header", "read", "parse", "update",
     "live_logger", "live_top", "live_parse", "live_update", "live_log"}

HasSignal(sig) == \E k \in 1..Len(signals) : signals[k] = sig

\* C13: when the source cannot be opened the failure is reported to the
\* caller, the loop never enters Streaming, no read() is performed and the
\* manager receives no update.
C13_ConstructionFailureIsFatal ==
    ~file.exists =>
        /\ pc \notin StreamingPcs
        /\ file_state = "none" /\ file_pos = 0 /\ line_count = 0 /\ line = <<>>
        /\ history = <<>> /\ update_count = 0 /\ current = None /\ fed = <<>>
        /\ accepted = <<>>
        /\ pc \in {"done", "cleanup"} => HasSignal("error")
        /\ pc \in {"done", "cleanup"} => ~HasSignal("data")

C13_Witness ==
    /\ ~file.exists
    /\ loop = "AcquisitionThread"
    /\ pc = "done"
    /\ signals = <<"error", "status">>
    /\ update_count = 0

\* C14: a stop request issued to a started AcquisitionThread at any moment,
\* also before the worker has entered Streaming, is eventually followed by
\* the worker reaching Closed.
C14_StopTerminatesWorker ==
    (loop \in Threads /\ stopped) ~> (pc = "done")

\* C14, where it holds: a stop request that comes once the worker is in
\* its loop ends the worker.
C14_StopWhileStreamingTerminates ==
    (loop \in Threads /\ stopped /\ ~running /\ pc \notin {"live_start", "live_logger"})
        ~> (pc = "done")

\* C15: when a session that reached Streaming has ended, by cancellation,
\* by end of file or by both at once, the source is closed, the logger, if
\* there is one, is closed, and no close operation has raised.
C15_ClosedAtEnd ==
    pc = "done" /\ file.exists =>
        /\ ~is_connected /\ file_state = "closed"
        /\ log_state # "open"
        /\ log_buf = <<>>
        /\ raised = "none"

\* cancellation racing with end of file in the replay thread
C15_Witness ==
    /\ pc = "done" /\ loop = "ReplayThread" /\ file.exists
    /\ stopped
    /\ Len(rows.body) >= 1
    /\ file_pos = Len(file.lines) /\ line = <<>>
    /\ file_state = "closed"

\* C15 for a cancelled live session: source and started logger both closed
C15_LiveWitness ==
    /\ pc = "done" /\ loop = "gui_AcquisitionThread" /\ stopped
    /\ file_state = "closed" /\ log_state = "closed"
    /\ Len(history) >= 1

\* C16: a failed write inside log() does not reach the caller of log().
C16_LogDoesNotPropagate == raised # "log"

\* C16, in the live loops as they are: a failed write leaves the record in
\* the history and the loop running; only a stop request ends the loop.
C16_LiveLoopSurvivesSinkFailure ==
    loop \in LiveLoops =>
        /\ raised = "none"
        /\ history = fed
        /\ pc \in {"cleanup", "done"} /\ file.exists => stopped

\* C17: an empty read leaves manager, log and notifications as they are and
\* the live loop in Streaming, so that only a stop request ends a live
\* session; in a replay loop the empty read leads to Stopping.
C17_FalsyReadByMode ==
    /\ [](loop \in LiveLoops /\ pc \in {"cleanup", "done"} /\ file.exists => stopped)
    /\ [][ /\ pc = "live_top" /\ (loop \in Threads => running)
           /\ SerialSource_read_value = <<>>
           /\ stopped' = stopped
           => /\ pc' = "live_top"
              /\ UNCHANGED <<current, history, update_count, accepted>>
              /\ UNCHANGED <<log_state, log_file, log_buf, signals>> ]_vars
    /\ [][ /\ pc = "read" /\ (loop = "ReplayThread" => running)
           /\ read_value = <<>>
           /\ stopped' = stopped
           => pc' = "close" ]_vars

\* a live loop still polling after a read that raised inside the source
C17_Witness ==
    /\ loop = "main_live" /\ pc = "live_top" /\ ~stopped
    /\ file_pos >= 2
    /\ file.lines[file_pos] = SerialException
    /\ file.lines[file_pos - 1] = Timeout
    /\ line = <<>>

(***************************************************************************)
(* Claims about close() and about the logger's output file.                *)
(***************************************************************************)
\* C18: close() of a source or a logger raises no error however often and
\* in whatever state it is called; after it the source is not connected and
\* read() returns the empty string, and log() on the closed logger raises
\* no error.
C18_CloseIsIdempotent ==
    /\ [](raised # "close")
    /\ [](\A k \in 1..Len(logged) : logged[k].state = "closed" => ~logged[k].threw)
    /\ [][ file_state = "closed" /\ op' = "close" => UNCHANGED src_vars ]_vars
    /\ [][ log_state = "closed" /\ op' = "close"
              => UNCHANGED <<log_state, log_file, log_buf>> ]_vars
    /\ [][ file_state = "closed" /\ op' = "read"
              => /\ ~is_connected'
                 /\ returned'[Len(returned')] = <<>>
                 /\ file_pos' = file_pos ]_vars

\* the log_handlers logger closed, logged to, and closed again
C18_Witness ==
    /\ pc = "logger_caller" /\ variant = "log_handlers"
    /\ log_state = "closed" /\ op = "close"
    /\ Len(logged) = 2
    /\ logged[1].state = "open" /\ logged[2].state = "closed"
    /\ Has18(logged[2].record) /\ logged[2].io = "ok"
    /\ Len(log_file) = 2

\* a source closed with lines left unread, and read afterwards
C18_SourceWitness ==
    /\ pc = "source_caller" /\ file_state = "closed" /\ op = "read"
    /\ file_pos < Len(file.lines)
    /\ Len(returned) >= 2 /\ returned[Len(returned)] = <<>>

\* every call of log() so far was made on the open logger with a full
\* record, and its write succeeded
AllLogged ==
    \A k \in 1..Len(logged) :
        logged[k].state = "open" /\ Has18(logged[k].record) /\ logged[k].io = "ok"

\* C19: after start, n calls of log(record) and close, the output file
\* holds n + 1 rows: the header row, then one row of 18 fields for each
\* logged record, in the order of the calls.
C19_HeaderThenOneRowPerRecord ==
    pc = "logger_caller" /\ log_state = "closed" /\ AllLogged =>
        /\ Len(log_file) = Len(logged) + 1
        /\ log_file[1] = HeaderRow(variant)
        /\ \A k \in 1..Len(logged) :
              LET fields == split(rstrip(log_file[k + 1]), WriterDelimiter(variant))
                  rec == logged[k].record
              IN /\ Len(fields) = 18
                 /\ int_ok(fields[1]) /\ int_val(fields[1]) = rec.time_ms
                 /\ float_ok(fields[2]) /\ float_val(fields[2]) = rec.speed
                 /\ int_ok(fields[3]) /\ int_val(fields[3]) = rec.rpm
                 /\ float_ok(fields[4]) /\ float_val(fields[4]) = rec.throttle
                 /\ float_ok(fields[5]) /\ float_val(fields[5]) = rec.battery_temp
                 /\ float_ok(fields[8]) /\ float_val(fields[8]) = rec.g_force_vert
                 /\ float_ok(fields[18]) /\ float_val(fields[18]) = rec.tire_temp_rr

C19_Witness ==
    /\ pc = "logger_caller" /\ variant = "src" /\ log_state = "closed" /\ AllLogged
    /\ Len(logged) = 2
    /\ logged[1].record.time_ms = 300 /\ logged[2].record.time_ms = 0
    /\ Len(log_file) = 3
    /\ log_file[3] = <<"0", ",", "3", "0", ".", "0", ",", "7", "0", "0", "0", ",",
                       "5", "0", ".", "0", ",", "6", "0", ".", "0", ",",
                       "0", ".", "0", ",", "0", ".", "0", ",", "1", ".", "0", ",",
                       "0", ".", "0", ",", "0", ".", "0", ",", "0", ".", "0", ",",
                       "0", ".", "0", ",", "0", ".", "0", ",", "0", ".", "0", ",",
                       "0", ".", "0", ",", "0", ".", "0", ",", "0", ".", "0", ",",
                       "0", ".", "0", "\r", "\n">>

\* C20: when log(record) returns on an open logger the row of that record
\* is in the output file and not in a buffer.
C20_LogFlushes ==
    /\ pc = "logger_caller" /\ op = "log" /\ Len(logged) >= 1 /\ AllLogged
    => /\ log_buf = <<>>
       /\ Len(log_file) = Len(logged) + 1
       /\ log_file[Len(log_file)] = LoggedRow(variant, logged[Len(logged)].record)

\* C20, where it holds: the logger of log_handlers/csv_logger.py.
C20_LogHandlersFlushes ==
    /\ pc = "logger_caller" /\ variant = "log_handlers" /\ log_state = "open" /\ AllLogged
    => /\ log_buf = <<>>
       /\ Len(log_file) = Len(logged) + 1

(***************************************************************************)
(* File names of loggers built without one.  A process builds loggers one  *)
(* after another while its clock advances; the file each one opens is      *)
(* modelled by start_logging above.                                        *)
(***************************************************************************)
MaxClock == 2       \* latest reading of the clock
MaxLoggers == 3     \* most loggers built in one process

LOG_DIRECTORY == <<"d", "a", "t", "a", "_", "l", "o", "g", "s">>
LOG_FILENAME_PREFIX == <<"r", "u", "n">>
Underscore == <<"_">>
DotCsv == <<".", "c", "s", "v">>

\* datetime.now().strftime("%Y%m%d_%H%M%S%f"): one text per microsecond
strftime(t) == NatStr(t)

\* CSVLogger._generate_filename: the counter read after its increment
generate_filename ==
    LOG_FILENAME_PREFIX \o Underscore \o strftime(clock)
        \o Underscore \o NatStr(file_counter + 1) \o DotCsv

\* start_logging() without a filename: f"data_logs/run_{timestamp}.csv"
default_filename ==
    LOG_DIRECTORY \o <<"/">> \o LOG_FILENAME_PREFIX \o Underscore \o strftime(clock) \o DotCsv

SessionIdle ==      \* the session state a logger factory does not touch
    /\ UNCHANGED <<current, history, update_count, stats, op, fed, prev>>
    /\ UNCHANGED <<file, file_pos, file_state, line_count>>
    /\ UNCHANGED <<loop, pc, line, data, running, stopped, rows, signals, accepted>>
    /\ UNCHANGED <<toks, variant, log_state, log_file, reparsed>>
    /\ UNCHANGED <<log_buf, io, raised, source, returned, logged>>
    /\ UNCHANGED gui_vars

\* time passing between two constructions
Tick ==
    /\ clock < MaxClock
    /\ clock' = clock + 1
    /\ UNCHANGED <<file_counter, filenames, calls>>
    /\ SessionIdle

\* CSVLogger() of log_handlers/csv_logger.py, no filename given
NewLogHandlersLogger ==
    /\ Len(filenames) < MaxLoggers
    /\ filenames' = Append(filenames, [variant |-> "log_handlers", name |-> generate_filename])
    /\ file_counter' = file_counter + 1
    /\ UNCHANGED <<clock, calls>>
    /\ SessionIdle

\* CSVLogger() of src/src/csv_logger.py, then start_logging(), no filename given
NewSrcLogger ==
    /\ Len(filenames) < MaxLoggers
    /\ filenames' = Append(filenames, [variant |-> "src", name |-> default_filename])
    /\ UNCHANGED <<clock, file_counter, calls>>
    /\ SessionIdle

InitLoggers ==
    /\ ManagerInit
    /\ ProcInit
    /\ stats = None /\ op = "init" /\ fed = <<>> /\ prev = None
    /\ file = NoFile /\ file_pos = 0 /\ file_state = "none" /\ line_count = 0
    /\ loop = "none" /\ pc = "logger_factory" /\ line = <<>> /\ data = None
    /\ running = FALSE /\ stopped = FALSE /\ signals = <<>> /\ accepted = <<>>
    /\ rows = <<>> /\ toks = <<>>
    /\ variant = "none" /\ log_state = "none" /\ log_file = <<>> /\ reparsed = None
    /\ log_buf = <<>> /\ io = "ok" /\ raised = "none" /\ source = "none"
    /\ returned = <<>> /\ logged = <<>>

NextLoggers ==
    \/ Tick
    \/ NewLogHandlersLogger
    \/ NewSrcLogger

SpecLoggers == InitLoggers /\ [][NextLoggers]_vars

\* C21: any two loggers built in one process without an explicit filename
\* have different file names, also when both are built at the same
\* timestamp.
C21_FilenamesDiffer ==
    \A i, j \in 1..Len(filenames) :
        i # j => filenames[i].name # filenames[j].name

\* C21, where it holds: the names CSVLogger._generate_filename of
\* log_handlers/csv_logger.py produces carry a counter and differ pairwise.
C21_CountedFilenamesDiffer ==
    \A i, j \in 1..Len(filenames) :
        /\ i # j
        /\ filenames[i].variant = "log_handlers"
        /\ filenames[j].variant = "log_handlers"
        => filenames[i].name # filenames[j].name

(***************************************************************************)
(* A program that calls parse_csv_line on lines of its choice, between     *)
(* manager updates and logger writes made with the records it obtained.    *)
(***************************************************************************)
MaxCalls == 3       \* most calls of parse_csv_line in one run
MaxEffects == 1     \* most manager updates, and most logger writes, in one run

\* the lines the caller parses: a five-field row, an eighteen-field row, a
\* row with a field that is not a number, and a header
CallPool == {RawLine(RowPool[k]) : k \in {1, 3, 5, 6}}

CallFrame ==
    /\ UNCHANGED <<file, file_pos, file_state, line_count>>
    /\ UNCHANGED <<loop, pc, running, stopped, rows, signals, accepted>>
    /\ UNCHANGED <<prev, reparsed, source, returned>>
    /\ UNCHANGED <<clock, file_counter, filenames>>
    /\ UNCHANGED gui_vars

\* data = parse_csv_line(line)
CallParse ==
    /\ Len(calls) < MaxCalls
    /\ \E ln \in CallPool :
          /\ line' = ln
          /\ data' = parse_csv_line(ln)
          /\ calls' = Append(calls, [line |-> ln,
                                     result |-> parse_csv_line(ln),
                                     updates |-> update_count,
                                     written |-> Len(log_file) + Len(log_buf)])
    /\ op' = "parse"
    /\ UNCHANGED <<current, history, update_count, stats, fed, toks>>
    /\ UNCHANGED <<variant, log_state, log_file, log_buf, io, raised, logged>>
    /\ CallFrame

\* manager.update(data) with the record of the latest call
CallUpdate ==
    /\ data # None
    /\ Len(history) < MaxEffects
    /\ update(data)
    /\ fed' = Append(fed, data)
    /\ op' = "update"
    /\ UNCHANGED <<stats, line, data, toks, calls>>
    /\ UNCHANGED <<variant, log_state, log_file, log_buf, io, raised, logged>>
    /\ CallFrame

\* logger.log(data) with the record of the latest call
CallLog ==
    /\ data # None
    /\ Len(logged) < MaxEffects
    /\ io' = "ok"
    /\ log(data)
    /\ logged' = Append(logged, [record |-> data, io |-> "ok", state |-> log_state,
                                 threw |-> log_raises(data)])
    /\ op' = "log"
    /\ UNCHANGED <<current, history, update_count, stats, fed>>
    /\ UNCHANGED <<line, data, toks, calls, variant, log_state>>
    /\ CallFrame

InitCalls ==
    /\ ManagerInit
    /\ ProcInit
    /\ stats = None /\ op = "init" /\ fed = <<>> /\ prev = None
    /\ file = NoFile /\ file_pos = 0 /\ file_state = "none" /\ line_count = 0
    /\ loop = "none" /\ pc = "parser_caller" /\ line = <<>> /\ data = None
    /\ running = FALSE /\ stopped = FALSE /\ signals = <<>> /\ accepted = <<>>
    /\ rows = <<>> /\ toks = <<>>
    /\ \E v \in {"src", "log_handlers"} : LoggerStarted(v)
    /\ reparsed = None
    /\ io = "ok" /\ raised = "none" /\ source = "none"
    /\ returned = <<>> /\ logged = <<>>

NextCalls ==
    \/ CallParse
    \/ CallUpdate
    \/ CallLog

SpecCalls == InitCalls /\ [][NextCalls]_vars

LoopTops == {"read", "live_top"}

\* C23: once stop() has been called on a started worker thread, the worker
\* begins no further read: from the top of its loop it goes to its exit
\* without consuming input, whenever the request came.
C23_NoReadAfterStop ==
    [][ /\ loop \in Threads \cup {"ReplayThread"}
        /\ stopped
        /\ pc \in LoopTops
        => /\ UNCHANGED <<file_pos, line_count, line>>
           /\ pc' \in {"close", "cleanup"} ]_vars

\* C23, where it holds: a request that comes after the worker has executed
\* self.running = True.
C23_NoReadAfterStopInLoop ==
    [][ /\ loop \in Threads \cup {"ReplayThread"}
        /\ stopped /\ ~running
        /\ pc \in LoopTops
        => /\ UNCHANGED <<file_pos, line_count, line>>
           /\ pc' \in {"close", "cleanup"} ]_vars

DataSignals == Len(SelectSeq(signals, LAMBDA sig : sig = "data"))

\* C24: a record is passed to manager.update before its notification is
\* emitted, and notifications are emitted in history order: the k-th
\* notification of a session finds at least k records in the manager's
\* history, the k-th of them being the notified record.
C24_UpdateBeforeNotify ==
    /\ Len(accepted) <= Len(history)
    /\ \A k \in 1..Len(accepted) : history[k] = accepted[k]
    /\ loop \in Threads \cup {"ReplayThread"} => DataSignals = Len(accepted)

\* the live thread between update and notification of its second record
C24_Witness ==
    /\ loop = "AcquisitionThread" /\ pc = "live_log"
    /\ Len(history) = 2 /\ Len(accepted) = 1 /\ DataSignals = 1
    /\ accepted[1] = history[1]
    /\ history[2] # history[1]
    /\ data = history[2]

(***************************************************************************)
(* The GUI process: ReplayModeWidget and LiveModeWidget of src/src build   *)
(* worker threads on the user's start and stop commands.  Every thread     *)
(* object holds a reference to a TelemetryManager; the manager objects     *)
(* live in managers, the first two being the widgets' own.  A manager      *)
(* carries, besides its fields, the set of threads that have updated it.   *)
(* wait(1000) may time out, so the command that called it goes on while    *)
(* the thread it stopped is still running.                                 *)
(***************************************************************************)
MaxThreads == 2     \* most worker threads built in one run of the process

NewManager == [current |-> None, history |-> <<>>, update_count |-> 0, writers |-> {}]

\* TelemetryManager.update on the manager object m, called by thread w
manager_update(m, d, w) ==
    IF d = None THEN m
    ELSE [m EXCEPT !.current = d,
                   !.history = Append(@, d),
                   !.update_count = @ + 1,
                   !.writers = @ \cup {w}]

\* TelemetryManager.clear_history on the manager object m
manager_clear_history(m) ==
    [m EXCEPT !.history = <<>>, !.update_count = 0, !.current = None]

\* a thread constructor that takes the replay widget's manager
Thread_init_sharing(ms, kind) ==
    [managers |-> ms,
     thread   |-> [kind |-> kind, manager |-> 1, running |-> FALSE,
                   state |-> "started", row |-> 0, accepted |-> <<>>]]

\* ReplayThread.__init__ / AcquisitionThread.__init__, then start():
\* self.running = False; self.manager = TelemetryManager()
Thread_init(ms, kind) ==
    [managers |-> Append(ms, NewManager),
     thread   |-> [kind |-> kind, manager |-> Len(ms) + 1, running |-> FALSE,
                   state |-> "started", row |-> 0, accepted |-> <<>>]]

isRunning(w) == threads[w].state # "finished"

\* thread.stop(): self.running = False
Thread_stop(ts, w) == [ts EXCEPT ![w].running = FALSE]

chomp(l) == IF l # <<>> /\ l[Len(l)] = "\n" THEN SubSeq(l, 1, Len(l) - 1) ELSE l

\* one row of csv.reader(file), joined again: ','.join(row)
csv_reader_line(l) ==
    IF chomp(l) = <<>> THEN <<>> ELSE join(split(chomp(l), ","), ",")

\* what a worker makes of its next input line
thread_parse(kind, l) ==
    IF kind = "replay" THEN parse_csv_line(csv_reader_line(l))
                       ELSE parse_csv_line(strip(l))

WidgetFrame ==
    /\ UNCHANGED <<current, history, update_count, stats, op, fed, prev>>
    /\ UNCHANGED <<file, file_pos, file_state, line_count>>
    /\ UNCHANGED <<loop, pc, line, data, running, stopped, rows, signals, accepted>>
    /\ UNCHANGED <<toks, variant, log_state, log_file, reparsed>>
    /\ UNCHANGED <<log_buf, io, raised, source, returned, logged>>
    /\ UNCHANGED proc_vars
    /\ UNCHANGED <<gs_pc, gs_locals>>

\* ReplayModeWidget.start_replay
StartReplay ==
    /\ Len(threads) < MaxThreads
    /\ LET ts == IF replay_thread # 0 /\ isRunning(replay_thread)
                 THEN Thread_stop(threads, replay_thread) ELSE threads
           ms == [managers EXCEPT ![1] = manager_clear_history(@)]
           new == Thread_init(ms, "replay")
       IN /\ managers' = new.managers
          /\ threads' = Append(ts, new.thread)
          /\ replay_thread' = Len(threads) + 1
    /\ UNCHANGED acquisition_thread
    /\ WidgetFrame

\* ReplayModeWidget.stop_replay_method; reset_all_data resets the widget's manager
StopReplay ==
    /\ threads' = IF replay_thread # 0 /\ isRunning(replay_thread)
                  THEN Thread_stop(threads, replay_thread) ELSE threads
    /\ managers' = [managers EXCEPT ![1] = manager_clear_history(@)]
    /\ UNCHANGED <<replay_thread, acquisition_thread>>
    /\ WidgetFrame

\* LiveModeWidget.start_acquisition
StartAcquisition ==
    /\ Len(threads) < MaxThreads
    /\ LET new == Thread_init(managers, "live")
       IN /\ managers' = new.managers
          /\ threads' = Append(threads, new.thread)
          /\ acquisition_thread' = Len(threads) + 1
    /\ UNCHANGED replay_thread
    /\ WidgetFrame

\* LiveModeWidget.stop_acquisition
StopAcquisition ==
    /\ acquisition_thread # 0
    /\ threads' = Thread_stop(threads, acquisition_thread)
    /\ UNCHANGED <<managers, replay_thread, acquisition_thread>>
    /\ WidgetFrame

\* the start of run(): self.running = True
ThreadRun(w) ==
    /\ threads[w].state = "started"
    /\ threads' = [threads EXCEPT ![w].state = "loop", ![w].running = TRUE]
    /\ UNCHANGED <<managers, replay_thread, acquisition_thread>>
    /\ WidgetFrame

\* one pass of the worker's loop: the test of self.running, then the next
\* line parsed, passed to self.manager.update and notified
ThreadStep(w) ==
    /\ threads[w].state = "loop"
    /\ LET t == threads[w]
           d == thread_parse(t.kind, file.lines[t.row + 1])
       IN IF ~t.running \/ (t.kind = "replay" /\ t.row = Len(file.lines))
          THEN /\ threads' = [threads EXCEPT ![w].state = "finished", ![w].running = FALSE]
               /\ UNCHANGED managers
          ELSE IF t.row = Len(file.lines)
          THEN UNCHANGED <<threads, managers>>
          ELSE /\ managers' = [managers EXCEPT ![t.manager] = manager_update(@, d, w)]
               /\ threads' = [threads EXCEPT
                                ![w].row = @ + 1,
                                ![w].accepted = IF d = None THEN @ ELSE Append(@, d)]
    /\ UNCHANGED <<replay_thread, acquisition_thread>>
    /\ WidgetFrame

WidgetFiles ==
    { [header |-> TRUE, body |-> b] : b \in [1..2 -> {1, 2, 5}] }

InitWidget ==
    /\ ManagerInit
    /\ stats = None /\ op = "init" /\ fed = <<>> /\ prev = None
    /\ rows \in WidgetFiles
    /\ file = [exists |-> TRUE, lines |-> LinesOf(rows)]
    /\ file_pos = 0 /\ file_state = "none" /\ line_count = 0
    /\ loop = "none" /\ pc = "widgets" /\ line = <<>> /\ data = None
    /\ running = FALSE /\ stopped = FALSE /\ signals = <<>> /\ accepted = <<>>
    /\ toks = <<>>
    /\ variant = "none" /\ log_state = "none" /\ log_file = <<>> /\ reparsed = None
    /\ log_buf = <<>> /\ io = "ok" /\ raised = "none" /\ source = "none"
    /\ returned = <<>> /\ logged = <<>>
    /\ clock = 0 /\ file_counter = 0 /\ filenames = <<>> /\ calls = <<>>
    /\ managers = <<NewManager, NewManager>>
    /\ threads = <<>> /\ replay_thread = 0 /\ acquisition_thread = 0
    /\ gs_pc = "idle" /\ gs_locals = <<>>

NextWidget ==
    \/ StartReplay
    \/ StopReplay
    \/ StartAcquisition
    \/ StopAcquisition
    \/ \E w \in 1..Len(threads) : ThreadRun(w)
    \/ \E w \in 1..Len(threads) : ThreadStep(w)

SpecWidget == InitWidget /\ [][NextWidget]_vars

\* C25: whatever start and stop commands the widgets receive, each manager
\* object is updated by at most one worker, and the manager of a run holds
\* exactly the records accepted in that run, so it started empty and holds
\* nothing of an earlier session.
C25_OneWorkerPerManager ==
    /\ \A m \in 1..Len(managers) : Cardinality(managers[m].writers) <= 1
    /\ \A w \in 1..Len(threads) :
          /\ managers[threads[w].manager].history = threads[w].accepted
          /\ managers[threads[w].manager].update_count = Len(threads[w].accepted)
          /\ managers[threads[w].manager].writers \subseteq {w}

\* a second replay started while the first worker, whose stop request was
\* lost, is still running: both workers accept records at the same time
C25_Witness ==
    /\ Len(threads) = 2
    /\ threads[1].kind = "replay" /\ threads[2].kind = "replay"
    /\ replay_thread = 2
    /\ threads[1].state = "loop" /\ threads[1].running
    /\ threads[2].state = "loop"
    /\ Len(threads[1].accepted) = 1 /\ Len(threads[2].accepted) = 2
    /\ managers[threads[1].manager].writers = {1}
    /\ managers[threads[2].manager].writers = {2}

\* C26: in a live session every record the manager accepted is persisted:
\* each iteration whose write does not fail adds the row of the accepted
\* record to the session's log, after the rows of the records before it, so
\* that the closed log holds one data row per update, in history order.
C26_AcceptedRecordsPersisted ==
    [][ /\ loop \in LiveLoops
        /\ pc = "live_log" /\ pc' = "live_top"
        /\ io' = "ok"
        => /\ Has18(data)
           /\ log_state = "open"
           /\ log_file' \o log_buf' = (log_file \o log_buf) \o <<LoggedRow(variant, data)>> ]_vars

\* C26, what the live loops do instead: none of them ever writes a data
\* row; the log, where one is opened at all, holds its header and no more.
C26_LiveLoopsPersistNothing ==
    loop \in LiveLoops =>
        /\ Len(log_file) + Len(log_buf) <= 1
        /\ loop # "gui_AcquisitionThread" => log_state = "none" /\ log_file = <<>>

(***************************************************************************)
(* Claims about the replay loops' first line, their last notification and  *)
(* the paths on which they fail.                                           *)
(***************************************************************************)
\* C27: the first line of a replayed file is dropped only if it is a
\* header: a file without header whose lines are all valid records ends
\* with every line in the manager's history.
C27_HeaderlessFileReplayedWhole ==
    RanToEndOfFile /\ ~rows.header /\ AllValid =>
        get_history_count = Len(rows.body)

\* C27, what main_replay does instead: the first line is consumed before
\* the loop whatever it holds, and the history is made of the valid rows
\* from the second line on.
C27_FirstLineAlwaysDropped ==
    RanToEndOfFile /\ loop = "main_replay" /\ ~rows.header /\ NoBlankRow =>
        /\ history = ValidRecords(2)
        /\ file_pos = Len(file.lines)

(***************************************************************************)
(* get_stats() called by the presentation thread on the manager a worker   *)
(* is updating.  Nothing locks the manager: the worker's update() can run  *)
(* between any two statements of get_stats().  A list comprehension over   *)
(* self.history yields the history as it is when the comprehension ends.   *)
(***************************************************************************)
StatsSteps == <<"speeds", "rpms", "temps", "throttles", "return">>

FieldList(f) == [i \in 1..Len(history) |-> history[i][f]]

\* the list each step of get_stats builds
StepList(step) ==
    IF step = "speeds" THEN FieldList("speed")
    ELSE IF step = "rpms" THEN FieldList("rpm")
    ELSE IF step = "temps" THEN FieldList("battery_temp")
    ELSE FieldList("throttle")

StepAfter(step) == StatsSteps[(CHOOSE i \in 1..4 : StatsSteps[i] = step) + 1]

\* the dictionary get_stats returns, from the lists it has built
stats_dict(speeds, rpms, temps, throttles) ==
    [max_speed    |-> py_max(speeds),
     min_speed    |-> py_min(speeds),
     avg_speed    |-> truediv(py_sum(speeds), Len(speeds)),
     max_rpm      |-> py_max(rpms),
     min_rpm      |-> py_min(rpms),
     avg_rpm      |-> truediv(py_sum(rpms), Len(rpms)),
     max_temp     |-> py_max(temps),
     min_temp     |-> py_min(temps),
     avg_temp     |-> truediv(py_sum(temps), Len(temps)),
     max_throttle |-> py_max(throttles),
     data_points  |-> Len(history)]

StatsFrame ==
    /\ UNCHANGED <<file, file_pos, file_state, line_count>>
    /\ UNCHANGED <<loop, pc, line, data, running, stopped, rows, signals, accepted>>
    /\ UNCHANGED <<toks, variant, log_state, log_file, reparsed>>
    /\ UNCHANGED <<log_buf, io, raised, source, returned, logged>>
    /\ UNCHANGED proc_vars
    /\ UNCHANGED <<managers, threads, replay_thread, acquisition_thread>>

\* the worker loop: self.manager.update(data)
WorkerUpdate ==
    /\ Len(history) < MaxHistory
    /\ \E d \in RecordPool :
          /\ update(d)
          /\ fed' = Append(fed, d)
    /\ op' = "update"
    /\ prev' = Snapshot
    /\ UNCHANGED <<stats, gs_pc, gs_locals>>
    /\ StatsFrame

\* get_stats: if not self.history: return {}
GetStatsEnter ==
    /\ gs_pc = "idle"
    /\ gs_locals' = <<>>
    /\ IF history = <<>>
       THEN /\ stats' = EmptyDict
            /\ gs_pc' = "idle"
            /\ op' = "get_stats"
       ELSE /\ gs_pc' = "speeds"
            /\ op' = "get_stats_entered"
            /\ UNCHANGED stats
    /\ prev' = Snapshot
    /\ UNCHANGED <<current, history, update_count, fed>>
    /\ StatsFrame

\* get_stats: speeds = [...]; rpms = [...]; temps = [...]; throttles = [...]
GetStatsCollect ==
    /\ gs_pc \in {"speeds", "rpms", "temps", "throttles"}
    /\ gs_locals' = Append(gs_locals, StepList(gs_pc))
    /\ gs_pc' = StepAfter(gs_pc)
    /\ op' = "get_stats_collect"
    /\ UNCHANGED <<current, history, update_count, fed, stats, prev>>
    /\ StatsFrame

\* get_stats: return {...}
GetStatsReturn ==
    /\ gs_pc = "return"
    /\ stats' = stats_dict(gs_locals[1], gs_locals[2], gs_locals[3], gs_locals[4])
    /\ gs_pc' = "idle"
    /\ op' = "get_stats"
    /\ UNCHANGED <<current, history, update_count, fed, prev, gs_locals>>
    /\ StatsFrame

InitStats ==
    /\ ManagerInit
    /\ ProcInit
    /\ stats = None /\ op = "init" /\ fed = <<>> /\ prev = None
    /\ file = NoFile /\ file_pos = 0 /\ file_state = "none" /\ line_count = 0
    /\ loop = "none" /\ pc = "worker_and_gui" /\ line = <<>> /\ data = None
    /\ running = FALSE /\ stopped = FALSE /\ signals = <<>> /\ accepted = <<>>
    /\ rows = <<>> /\ toks = <<>>
    /\ variant = "none" /\ log_state = "none" /\ log_file = <<>> /\ reparsed = None
    /\ log_buf = <<>> /\ io = "ok" /\ raised = "none" /\ source = "none"
    /\ returned = <<>> /\ logged = <<>>

NextStats ==
    \/ WorkerUpdate
    \/ GetStatsEnter
    \/ GetStatsCollect
    \/ GetStatsReturn

SpecStats == InitStats /\ [][NextStats]_vars

\* C28: the mapping get_stats() returns while the worker is updating the
\* manager describes one prefix of the history: data_points is the number
\* of samples behind each of the speed, rpm, temp and throttle aggregates.
C28_StatsDescribeOnePrefix ==
    op = "get_stats" /\ stats # EmptyDict =>
        \A i \in 1..4 : Len(gs_locals[i]) = stats.data_points

\* C28, what does hold: each list is a prefix of the history, the lists
\* grow in the order they are built, and data_points counts at least as
\* many samples as any of them.
C28_StatsOverGrowingPrefixes ==
    /\ \A i \in 1..Len(gs_locals) :
          /\ Len(gs_locals[i]) <= Len(history)
          /\ i > 1 => Len(gs_locals[i - 1]) <= Len(gs_locals[i])
    /\ Len(gs_locals) >= 1 => gs_locals[1] = SubSeq(FieldList("speed"), 1, Len(gs_locals[1]))
    /\ op = "get_stats" /\ stats # EmptyDict =>
          \A i \in 1..4 : Len(gs_locals[i]) <= stats.data_points

FinishedSignals == Len(SelectSeq(signals, LAMBDA sig : sig = "finished"))

\* C29: every run of the replay worker ends with exactly one 'finished'
\* notification, whether it ends by end of file, by cancellation or by an
\* error such as a file that cannot be opened, and nothing is notified
\* after it.
C29_ExactlyOneFinished ==
    loop = "ReplayThread" /\ pc = "done" =>
        /\ FinishedSignals = 1
        /\ signals[Len(signals)] = "finished"

\* C29, where it holds: the runs of ReplayThread.run that opened their file.
C29_FinishedAfterOpenedFile ==
    /\ loop = "ReplayThread" /\ pc = "done" /\ file.exists =>
          /\ FinishedSignals = 1
          /\ signals[Len(signals)] = "finished"
    /\ loop = "ReplayThread" /\ pc # "done" => FinishedSignals = 0

(***************************************************************************)
(* Sessions in which something fails after the source was opened: the      *)
(* constructor of the log_handlers logger raising the IOError of           *)
(* _init_file, and an exception raised by a statement of the loop.  The    *)
(* sessions are those of SpecSessions on inputs of at most MaxPolls lines, *)
(* and main_live of main.py, whose logger is built between the try block   *)
(* that opens the source and the try block of the loop.                    *)
(***************************************************************************)
LoopPcs ==
    {"skip_header", "read", "parse", "update",
     "live_top", "live_parse", "live_update", "live_log"}

\* CSVLogger() raising: caught by the except clause of the thread's run(),
\* caught by nothing in main_live, which is left with the exception
LoggerCreationFails ==
    /\ pc = "live_logger"
    /\ loop \in LogHandlersLoops
    /\ raised' = "CSVLogger"
    /\ IF loop \in Threads
       THEN pc' = "cleanup" /\ signals' = Append(signals, "error")
       ELSE pc' = "done" /\ UNCHANGED signals
    /\ UNCHANGED <<current, history, update_count, stats, fed>>
    /\ UNCHANGED <<file, file_pos, file_state, line_count>>
    /\ UNCHANGED <<line, data, running, stopped, accepted>>
    /\ UNCHANGED <<variant, log_state, log_file, log_buf, io>>
    /\ LiveFrame

\* an exception raised inside the loop: the except clause of ReplayThread.run
\* reports it and returns; every other loop has a finally clause
LoopRaises ==
    /\ pc \in LoopPcs
    /\ raised' = "loop"
    /\ pc' = IF loop = "ReplayThread" THEN "done"
             ELSE IF loop = "main_replay" THEN "close"
             ELSE "cleanup"
    /\ signals' = IF loop \in Threads \cup {"ReplayThread"}
                  THEN Append(signals, "error") ELSE signals
    /\ UNCHANGED <<current, history, update_count, stats, fed>>
    /\ UNCHANGED <<file, file_pos, file_state, line_count>>
    /\ UNCHANGED <<line, data, running, stopped, accepted>>
    /\ UNCHANGED <<variant, log_state, log_file, log_buf, io>>
    /\ LiveFrame

InitReplayShort ==
    /\ Init
    /\ Len(file.lines) <= MaxPolls

InitRootLive ==
    /\ ManagerInit
    /\ ProcInit
    /\ stats = None /\ op = "init" /\ fed = <<>> /\ prev = None
    /\ loop = "root_main_live"
    /\ rows = <<>>
    /\ \/ \E ls \in SerialInputs : file = [exists |-> TRUE, lines |-> ls]
       \/ file = NoFile
    /\ Len(file.lines) <= MaxPolls
    /\ file_pos = 0 /\ file_state = "none" /\ line_count = 0
    /\ pc = "live_start" /\ line = <<>> /\ data = None
    /\ running = FALSE /\ stopped = FALSE /\ signals = <<>> /\ accepted = <<>>
    /\ toks = <<>> /\ reparsed = None
    /\ variant = "none"
    /\ log_state = "none" /\ log_file = <<>> /\ log_buf = <<>>
    /\ io = "ok" /\ raised = "none" /\ source = "serial" /\ returned = <<>> /\ logged = <<>>

InitFailures ==
    \/ InitReplayShort
    \/ InitLiveShort
    \/ InitRootLive

NextFailures ==
    \/ Next
    \/ NextLive
    \/ LoggerCreationFails
    \/ LoopRaises

SpecFailures == InitFailures /\ [][NextFailures]_vars

Failed == raised \in {"CSVLogger", "loop"}

\* C30: a source that was opened is closed before its session ends on the
\* failure paths too: after a logger that could not be created and after
\* an exception inside the loop, close() has been called on the source when
\* the session function or the worker returns.
C30_SourceClosedOnFailure ==
    pc = "done" /\ Failed /\ file.exists => file_state = "closed"

\* C30, where it holds: the loops that close the source in a finally
\* clause entered after the source was opened.
C30_FinallyClosesSource ==
    /\ pc = "done" /\ Failed /\ file.exists
    /\ loop # "ReplayThread"
    /\ ~(loop = "root_main_live" /\ raised = "CSVLogger")
    => /\ file_state = "closed"
       /\ log_state # "open"

====
